---- MODULE Spec2Model ----
(***************************************************************************)
(* Model of the skill tooling of charlie-ai-skills:                        *)
(*   scripts/validateSkill.js      (src/unnamed/part_000, lines 1-61)      *)
(*   scripts/generateSkillFiles.js (src/scripts/generateSkillFiles.js)     *)
(* Strings are sequences of one-character strings; a path is a sequence    *)
(* of names (its components from the filesystem root).                     *)
(***************************************************************************)
EXTENDS Integers, Sequences, FiniteSets, TLC

VARIABLES
  fsDirs,      \* the directories that exist (set of paths)
  fsFiles,     \* the files that exist: path -> content
  mode,        \* "idle", "validate" or "generate": the script that runs
  arg,         \* process.argv[2] of the run
  pc,          \* position of the running script
  paths,       \* the working set returned by findSkillJsonPaths
  idx,         \* number of items of paths the for-of loop has taken
  failed,      \* validateSkill.js: let failed
  exitCode,    \* -1 while the process runs, then its exit status
  stderr,      \* lines written with console.error
  stdout,      \* lines written with console.log
  walked,      \* directories listed with readdirSync (observation only)
  trace,       \* files read and written by the run, in order (observation only)
  lastCall     \* outcome of the last validateOne/processOne call

vars == <<fsDirs, fsFiles, mode, arg, pc, paths, idx, failed, exitCode,
          stderr, stdout, walked, trace, lastCall>>

----------------------------------------------------------------------------
(* Bounds of the model *)

\* longest version string tried on the version pattern
MaxVerLen == 6
\* largest number of skill.json files in the skills tree
MaxSkills == 2
\* deepest directory below skills/ that holds a skill.json
MaxDepth == 2
\* largest number of entries of triggers, guarantees and non_goals
MaxItems == 2
\* largest number of Generate runs on the same tree
MaxRuns == 3
\* largest number of Install runs to the same destination
MaxInstalls == 2
\* largest number of Generate runs that overlap in time
MaxOverlap == 2

----------------------------------------------------------------------------
(* Strings *)

\* UTF-16 code units of the characters that occur in the model's strings
CharCode ==
  ("-" :> 45) @@ ("." :> 46) @@ ("/" :> 47) @@ ("1" :> 49) @@
  ("A" :> 65) @@ ("D" :> 68) @@ ("E" :> 69) @@ ("K" :> 75) @@
  ("L" :> 76) @@ ("M" :> 77) @@ ("R" :> 82) @@ ("S" :> 83) @@ ("I" :> 73) @@
  ("a" :> 97) @@ ("b" :> 98) @@ ("c" :> 99) @@ ("d" :> 100) @@
  ("e" :> 101) @@ ("i" :> 105) @@ ("j" :> 106) @@ ("k" :> 107) @@
  ("l" :> 108) @@ ("m" :> 109) @@ ("n" :> 110) @@ ("o" :> 111) @@
  ("p" :> 112) @@ ("r" :> 114) @@ ("s" :> 115) @@ ("t" :> 116) @@
  ("u" :> 117) @@ ("x" :> 120)

Digits == {"0", "1", "2", "3", "4", "5", "6", "7", "8", "9"}

\* all strings over alphabet A of length at most n
StrUpTo(A, n) == UNION {[1..m -> A] : m \in 0..n}

\* Array.prototype.join on an array of strings
RECURSIVE JoinStr(_, _)
JoinStr(parts, sep) ==
  IF parts = <<>> THEN <<>>
  ELSE IF Len(parts) = 1 THEN parts[1]
  ELSE parts[1] \o sep \o JoinStr(Tail(parts), sep)

\* a < b for strings that agree before position i: comparison by code
\* units, a proper prefix comes first
RECURSIVE StrLessFrom(_, _, _)
StrLessFrom(a, b, i) ==
  IF i > Len(b) THEN FALSE
  ELSE IF i > Len(a) THEN TRUE
  ELSE IF CharCode[a[i]] < CharCode[b[i]] THEN TRUE
  ELSE IF CharCode[a[i]] > CharCode[b[i]] THEN FALSE
  ELSE StrLessFrom(a, b, i + 1)

StrLess(a, b) == StrLessFrom(a, b, 1)

----------------------------------------------------------------------------
(* JSON values, as JSON.parse returns them *)

JNull == [t |-> "null"]
JTrue == [t |-> "bool", s |-> <<"t", "r", "u", "e">>]
JNum(lit) == [t |-> "num", s |-> lit]
JStr(s) == [t |-> "str", s |-> s]
JArr(items) == [t |-> "arr", items |-> items]
\* an object: its keys in insertion order, and the value of each key
JObj(keys, fields) == [t |-> "obj", keys |-> keys, fields |-> fields]

\* String(v), the coercion RegExp.prototype.test applies to its argument
RECURSIVE StringOf(_)
StringOf(v) ==
  CASE v.t = "str" -> v.s
    [] v.t = "num" -> v.s
    [] v.t = "bool" -> v.s
    [] v.t = "null" -> <<"n", "u", "l", "l">>
    [] v.t = "undefined" -> <<"u", "n", "d", "e", "f", "i", "n", "e", "d">>
    [] v.t = "arr" ->
         JoinStr([i \in 1..Len(v.items) |->
                    IF v.items[i].t \in {"null", "undefined"} THEN <<>>
                    ELSE StringOf(v.items[i])], <<",">>)
    [] v.t = "obj" ->
         <<"[", "o", "b", "j", "e", "c", "t", " ", "O", "b", "j", "e", "c", "t", "]">>

JUndefined == [t |-> "undefined"]

\* file contents: a JSON text, or text that is not JSON
JsonFile(v) == [kind |-> "json", value |-> v]
TextFile(text) == [kind |-> "text", text |-> text]

\* variant: text that is not JSON is read as an empty object (a swallowed
\* parse error)
JSONParseLenient(content) ==
  IF content.kind = "json" THEN [threw |-> FALSE, value |-> content.value]
  ELSE [threw |-> FALSE, value |-> JObj(<<>>, <<>>)]

\* JSON.parse(fs.readFileSync(p, 'utf8')): a SyntaxError on text that is not JSON
JSONParse(content) ==
  IF content.kind = "json" THEN [threw |-> FALSE, value |-> content.value]
  ELSE [threw |-> TRUE, value |-> JUndefined]

----------------------------------------------------------------------------
(* validateSkill.js: validateOne *)

required == <<"id", "title", "version", "description">>

KeyName ==
  ("triggers" :> <<"t", "r", "i", "g", "g", "e", "r", "s">>) @@
  ("guarantees" :> <<"g", "u", "a", "r", "a", "n", "t", "e", "e", "s">>) @@
  ("non_goals" :> <<"n", "o", "n", "_", "g", "o", "a", "l", "s">>) @@
  ("inputs" :> <<"i", "n", "p", "u", "t", "s">>) @@
  ("notes" :> <<"n", "o", "t", "e", "s">>) @@
  ("length" :> <<"l", "e", "n", "g", "t", "h">>) @@
  ("k" :> <<"k">>) @@ ("j" :> <<"j">>) @@
  ("id" :> <<"i", "d">>) @@ ("title" :> <<"t", "i", "t", "l", "e">>) @@
  ("version" :> <<"v", "e", "r", "s", "i", "o", "n">>) @@
  ("description" :> <<"d", "e", "s", "c", "r", "i", "p", "t", "i", "o", "n">>)

\* variant: arrays rejected like primitives
InThrowsOnArrays(s) == s.t # "obj"

\* `k in s` raises a TypeError unless s is an object (arrays are objects)
InThrows(s) == s.t \notin {"obj", "arr"}

\* `k in s` for a required key k: an own key of the parsed object; an array
\* has only its indices and length
HasKey(k, s) == s.t = "obj" /\ k \in DOMAIN s.fields

\* s[k]
Get(s, k) == IF HasKey(k, s) THEN s.fields[k] ELSE JUndefined

\* \d+ at position i of str: the position after the longest run of digits
\* that starts at i, or 0 when str has no digit at i
RECURSIVE DigitsEnd(_, _)
DigitsEnd(str, i) ==
  IF i <= Len(str) /\ str[i] \in Digits
  THEN IF i + 1 <= Len(str) /\ str[i + 1] \in Digits
       THEN DigitsEnd(str, i + 1)
       ELSE i + 1
  ELSE 0

\* \. at position i: the position after it, or 0
DotEnd(str, i) == IF i > 0 /\ i <= Len(str) /\ str[i] = "." THEN i + 1 ELSE 0

DigitsAt(str, i) == IF i > 0 THEN DigitsEnd(str, i) ELSE 0

\* variant: the pattern anchored at both ends, /^\d+\.\d+\.\d+$/
SemverTestAnchored(str) ==
  DigitsAt(str, DotEnd(str, DigitsAt(str, DotEnd(str, DigitsAt(str, 1))))) = Len(str) + 1

\* /^\d+\.\d+\.\d+/.test(str). A run of digits is always followed by a
\* non-digit in the pattern (or ends it), so the longest run is the only
\* one that can match.
SemverTest(str) ==
  DigitsAt(str, DotEnd(str, DigitsAt(str, DotEnd(str, DigitsAt(str, 1))))) > 0

MissingMsg(missing) ==
  [kind |-> "missing", fields |-> JoinStr([i \in 1..Len(missing) |-> KeyName[missing[i]]], <<",", " ">>)]

SemverMsg == [kind |-> "semver"]

\* variant: only the first missing key is reported
missingOfFirst(s) ==
  LET all == SelectSeq(required, LAMBDA k : ~HasKey(k, s))
  IN  IF all = <<>> THEN <<>> ELSE <<Head(all)>>

\* required.filter((k) => !(k in s))
missingOf(s) == SelectSeq(required, LAMBDA k : ~HasKey(k, s))

\* validateOne(skillJsonPath) on the content of the file: what it returns
\* (ret), whether it raised instead (threw), and what it printed
validateOne(p, content) ==
  LET parsed == JSONParse(content)
      s == parsed.value
      missing == missingOf(s)
      Raise == [threw |-> TRUE, ret |-> FALSE, err |-> <<>>, out |-> <<>>]
  IN  IF parsed.threw THEN Raise
      ELSE IF InThrows(s) THEN Raise
      ELSE IF Len(missing) > 0
        THEN [threw |-> FALSE, ret |-> FALSE,
              err |-> <<[path |-> p, msg |-> MissingMsg(missing)]>>, out |-> <<>>]
      ELSE IF ~SemverTest(StringOf(Get(s, "version")))
        THEN [threw |-> FALSE, ret |-> FALSE,
              err |-> <<[path |-> p, msg |-> SemverMsg]>>, out |-> <<>>]
      ELSE [threw |-> FALSE, ret |-> TRUE, err |-> <<>>,
            out |-> <<[kind |-> "OK", id |-> Get(s, "id")]>>]

----------------------------------------------------------------------------
(* Inputs of validateOne *)

VerAlphabet == {"1", ".", "-"}

\* values tried for the version key: every short string over a digit, the
\* dot and another character, and values that are not strings
VersionValues ==
  {JStr(v) : v \in StrUpTo(VerAlphabet, MaxVerLen)} \cup
  {JNum(<<"1">>), JNum(<<"1", ".", "1">>), JNull,
   JArr(<<JStr(<<"1", ".", "1", ".", "1">>)>>), JObj(<<>>, <<>>)}

TextValues == {JStr(<<>>), JStr(<<"n", ".", "s">>)}

Absent == [t |-> "absent"]

\* the object with the keys whose value is not Absent
MkObj(i, ti, v, d) ==
  LET val == ("id" :> i) @@ ("title" :> ti) @@ ("version" :> v) @@ ("description" :> d)
  IN  JObj(SelectSeq(required, LAMBDA k : val[k] # Absent),
           [k \in {k \in DOMAIN val : val[k] # Absent} |-> val[k]])

Objects ==
  {MkObj(i, ti, v, d) : i \in TextValues \cup {Absent}, ti \in TextValues \cup {Absent},
                        v \in VersionValues \cup {Absent}, d \in TextValues \cup {Absent}}

NotJson == TextFile(<<"#", " ", "x">>)

Contents ==
  {JsonFile(o) : o \in Objects} \cup
  {JsonFile(JNull), JsonFile(JNum(<<"1">>)), JsonFile(JStr(<<"1">>)), JsonFile(JTrue),
   JsonFile(JArr(<<>>)), NotJson}

repoRoot == << <<"r", "e", "p", "o">> >>
SKILLS == <<"s", "k", "i", "l", "l", "s">>
skillsDir == repoRoot \o <<SKILLS>>
SKILL_JSON == <<"s", "k", "i", "l", "l", ".", "j", "s", "o", "n">>
OnePath == skillsDir \o << <<"a">>, SKILL_JSON >>

----------------------------------------------------------------------------
(* Specification of one call of validateOne on any content *)

InitOne ==
  /\ fsDirs = {repoRoot, skillsDir, skillsDir \o << <<"a">> >>}
  /\ \E c \in Contents : fsFiles = (OnePath :> c)
  /\ mode = "validate"
  /\ arg = JUndefined
  /\ pc = "call"
  /\ paths = <<OnePath>>
  /\ idx = 0
  /\ failed = FALSE
  /\ exitCode = -1
  /\ stderr = <<>>
  /\ stdout = <<>>
  /\ walked = {}
  /\ trace = <<>>
  /\ lastCall = "none"

CallOutcome(r) == IF r.threw THEN "threw" ELSE IF r.ret THEN "true" ELSE "false"

\* validateOne(p) called once
CallValidateOne ==
  /\ pc = "call"
  /\ LET r == validateOne(OnePath, fsFiles[OnePath])
     IN  /\ lastCall' = CallOutcome(r)
         /\ stderr' = stderr \o r.err
         /\ stdout' = stdout \o r.out
  /\ trace' = Append(trace, [op |-> "read", path |-> OnePath])
  /\ pc' = "called"
  /\ UNCHANGED <<fsDirs, fsFiles, mode, arg, paths, idx, failed, exitCode, walked>>

NextOne == CallValidateOne

SpecOne == InitOne /\ [][NextOne]_vars

----------------------------------------------------------------------------
(* Claims about validateOne, checked under SpecOne *)

TheContent == fsFiles[OnePath]
Called == pc = "called"
IsDescriptor == TheContent.kind = "json" /\ TheContent.value.t \in {"obj", "arr"}
KeysOf(v) == IF v.t = "obj" THEN DOMAIN v.fields ELSE {}
PresentKeys == KeysOf(TheContent.value)

\* the names of the keys that are not in ks, in the order id, title,
\* version, description, separated by ", "
ExpectedFieldList(ks) ==
  LET part(k) == IF k \in ks THEN <<>> ELSE <<KeyName[k]>>
  IN  JoinStr(part("id") \o part("title") \o part("version") \o part("description"),
              <<",", " ">>)

\* str starts with digits "." digits "." digits
SemverPrefix(str) ==
  \E i, j, k \in 1..Len(str) :
    /\ i + 1 < j /\ j + 1 < k
    /\ \A n \in 1..i : str[n] \in Digits
    /\ str[i + 1] = "."
    /\ \A n \in (i + 2)..j : str[n] \in Digits
    /\ str[j + 1] = "."
    /\ \A n \in (j + 2)..k : str[n] \in Digits

\* C1: a descriptor that lacks one or more of id, title, version, description
\* makes validateOne return false with exactly one diagnostic, whose field
\* list is the missing keys, all of them and only them, in the order id,
\* title, version, description.
C1_MissingFieldsReported ==
  (Called /\ IsDescriptor /\ PresentKeys # {"id", "title", "version", "description"}) =>
    /\ lastCall = "false"
    /\ Len(stderr) = 1
    /\ stderr[1].path = OnePath
    /\ stderr[1].msg.kind = "missing"
    /\ stderr[1].msg.fields = ExpectedFieldList(PresentKeys)
    /\ stdout = <<>>

C1_Witness ==
  /\ Called /\ IsDescriptor
  /\ PresentKeys = {"id", "version"}
  /\ stderr = <<[path |-> OnePath,
                 msg |-> [kind |-> "missing",
                          fields |-> KeyName["title"] \o <<",", " ">> \o KeyName["description"]]]>>

\* C2: with all four keys present validateOne returns true exactly when the
\* version (as the pattern test reads it) starts with digits.digits.digits;
\* when it fails for the version the only diagnostic is the semver message;
\* and no semver diagnostic is ever emitted when a required key is missing.
C2_VersionShape ==
  (Called /\ IsDescriptor) =>
    /\ PresentKeys = {"id", "title", "version", "description"} =>
         /\ lastCall = "true" <=> SemverPrefix(StringOf(TheContent.value.fields["version"]))
         /\ lastCall = "true" => stderr = <<>>
         /\ lastCall # "true" =>
              /\ lastCall = "false"
              /\ stderr = <<[path |-> OnePath, msg |-> SemverMsg]>>
    /\ PresentKeys # {"id", "title", "version", "description"} =>
         \A n \in 1..Len(stderr) : stderr[n].msg.kind # "semver"

C2_Witness ==
  /\ Called /\ IsDescriptor
  /\ PresentKeys = {"id", "title", "version", "description"}
  /\ TheContent.value.fields["version"] = JStr(<<"1", ".", "1", ".", "1", "-">>)
  /\ lastCall = "true"

\* C3 (as claimed): a descriptor in which id, title or description is present
\* but is the empty string fails validation.
C3_EmptyFieldRejected ==
  (Called /\ IsDescriptor /\
     \E k \in {"id", "title", "description"} :
        k \in PresentKeys /\ TheContent.value.fields[k] = JStr(<<>>))
    => lastCall = "false"

----------------------------------------------------------------------------
(* generateSkillFiles.js: the two renderers *)

\* truthiness of a value (`if (v)`, `v || d`, `v && e`)
Truthy(v) ==
  CASE v.t \in {"undefined", "null"} -> FALSE
    [] v.t = "str" -> v.s # <<>>
    [] v.t = "num" -> v.s # <<"0">>
    [] OTHER -> TRUE

\* property access raises a TypeError on null (and undefined)
PropThrows(s) == s.t \in {"null", "undefined"}

\* variant: a value that is not iterable is taken as empty
IterThrowsNever(v) == FALSE

\* `for (const x of v)`: the values iterated; numbers, booleans and plain
\* objects are not iterable
IterThrows(v) == v.t \notin {"arr", "str"}
\* variant: the values are iterated from the last to the first
IterItemsReversed(v) ==
  IF v.t = "arr" THEN [i \in 1..Len(v.items) |-> v.items[Len(v.items) + 1 - i]]
  ELSE IF v.t = "str" THEN [i \in 1..Len(v.s) |-> JStr(<<v.s[Len(v.s) + 1 - i]>>)]
  ELSE <<>>

IterItems(v) ==
  IF v.t = "arr" THEN v.items
  ELSE IF v.t = "str" THEN [i \in 1..Len(v.s) |-> JStr(<<v.s[i]>>)]
  ELSE <<>>

IndexKey == <<"0", "1", "2", "3", "4", "5", "6", "7", "8", "9">>

\* variant: the entries of an object in the reverse of their insertion order
ObjectEntriesReversed(v) ==
  CASE v.t = "obj" ->
         [i \in 1..Len(v.keys) |->
            <<KeyName[v.keys[Len(v.keys) + 1 - i]], v.fields[v.keys[Len(v.keys) + 1 - i]]>>]
    [] v.t = "arr" -> [i \in 1..Len(v.items) |-> <<<<IndexKey[i]>>, v.items[i]>>]
    [] v.t = "str" -> [i \in 1..Len(v.s) |-> <<<<IndexKey[i]>>, JStr(<<v.s[i]>>)>>]
    [] OTHER -> <<>>

\* Object.entries(v): the own enumerable string-keyed properties, in order
ObjectEntries(v) ==
  CASE v.t = "obj" -> [i \in 1..Len(v.keys) |-> <<KeyName[v.keys[i]], v.fields[v.keys[i]]>>]
    [] v.t = "arr" -> [i \in 1..Len(v.items) |-> <<<<IndexKey[i]>>, v.items[i]>>]
    [] v.t = "str" -> [i \in 1..Len(v.s) |-> <<<<IndexKey[i]>>, JStr(<<v.s[i]>>)>>]
    [] OTHER -> <<>>

\* `v || []`, `v || {}`
OrElse(v, d) == IF Truthy(v) THEN v ELSE d

\* `- ${x}` for each x
ItemLines(items) == [i \in 1..Len(items) |-> <<"-", " ">> \o StringOf(items[i])]

\* `- ${k}: ${v}` for each entry
EntryLines(entries) ==
  [i \in 1..Len(entries) |-> <<"-", " ">> \o entries[i][1] \o <<":", " ">> \o StringOf(entries[i][2])]

NL == "\n"

\* variant: every element is converted with String()
JoinItemString(v) == StringOf(v)

\* lines.join('\n') on one element: undefined and null give the empty string
JoinItem(v) == IF v.t \in {"undefined", "null"} THEN <<>> ELSE StringOf(v)

\* the text after the last "." of str: str.split('.').pop()
RECURSIVE LastSegment(_)
LastSegment(str) ==
  IF \E i \in 1..Len(str) : str[i] = "."
  THEN LastSegment(Tail(str))
  ELSE str

\* variant: a value that is not iterable is skipped
SkillMdThrowsNever(skill) == FALSE

\* the loops of generateSkillMd raise a TypeError on a value that is not
\* iterable (and any property access does on null)
SkillMdThrows(skill) ==
  \/ PropThrows(skill)
  \/ IterThrows(OrElse(Get(skill, "triggers"), JArr(<<>>)))
  \/ IterThrows(OrElse(Get(skill, "guarantees"), JArr(<<>>)))
  \/ IterThrows(OrElse(Get(skill, "non_goals"), JArr(<<>>)))

\* the elements pushed from the title line to the notes (the same statements
\* in both versions of generateSkillMd), each as lines.join converts it
SkillMdLines(skill) ==
  LET triggers == OrElse(Get(skill, "triggers"), JArr(<<>>))
      inputs == OrElse(Get(skill, "inputs"), JObj(<<>>, <<>>))
      guarantees == OrElse(Get(skill, "guarantees"), JArr(<<>>))
      non_goals == OrElse(Get(skill, "non_goals"), JArr(<<>>))
      notes == Get(skill, "notes")
  IN  << <<"#", " ">> \o StringOf(Get(skill, "title")),
         <<"v", "e", "r", "s", "i", "o", "n", ":", " ">> \o StringOf(Get(skill, "version")),
         <<>>,
         <<"#", "#", " ", "P", "u", "r", "p", "o", "s", "e">>,
         JoinItem(Get(skill, "description")),
         <<>>,
         <<"#", "#", " ", "T", "r", "i", "g", "g", "e", "r", "s">> >>
      \o ItemLines(IterItems(triggers))
      \o << <<NL, "#", "#", " ", "I", "n", "p", "u", "t", "s">> >>
      \o EntryLines(ObjectEntries(inputs))
      \o << <<NL, "#", "#", " ", "G", "u", "a", "r", "a", "n", "t", "e", "e", "s">> >>
      \o ItemLines(IterItems(guarantees))
      \o << <<NL, "#", "#", " ", "N", "o", "n", "-", "g", "o", "a", "l", "s">> >>
      \o ItemLines(IterItems(non_goals))
      \o << <<NL, "#", "#", " ", "N", "o", "t", "e", "s">> >>
      \o (IF Truthy(notes) THEN <<JoinItem(notes)>> ELSE <<>>)

\* generateSkillMd(skill) of generateSkillFiles.js: the text, or a TypeError
generateSkillMd(skill) ==
  IF SkillMdThrows(skill) THEN [threw |-> TRUE, text |-> <<>>]
  ELSE [threw |-> FALSE, text |-> JoinStr(SkillMdLines(skill), <<NL>>)]

\* skill.id.includes('.') raises a TypeError unless id is a string or an
\* array; on an array that holds "." the call of split raises it
SkillNameThrows(id) ==
  \/ id.t \notin {"str", "arr"}
  \/ id.t = "arr" /\ \E i \in 1..Len(id.items) : id.items[i] = JStr(<<".">>)

\* skill.id.includes('.') ? skill.id.split('.').pop() : skill.id
skillName(id) == IF id.t = "str" THEN JStr(LastSegment(id.s)) ELSE id

\* the YAML frontmatter pushed before the title line
FrontmatterLines(skill) ==
  << <<"-", "-", "-">>,
     <<"n", "a", "m", "e", ":", " ">> \o StringOf(skillName(Get(skill, "id"))),
     <<"d", "e", "s", "c", "r", "i", "p", "t", "i", "o", "n", ":", " ">>
       \o StringOf(Get(skill, "description")),
     <<"-", "-", "-">>,
     <<>> >>

\* generateSkillMd(skill) of the version with the frontmatter
generateSkillMdFrontmatter(skill) ==
  IF PropThrows(skill) \/ SkillNameThrows(Get(skill, "id")) \/ SkillMdThrows(skill)
  THEN [threw |-> TRUE, text |-> <<>>]
  ELSE [threw |-> FALSE,
        text |-> JoinStr(FrontmatterLines(skill) \o SkillMdLines(skill), <<NL>>)]

\* variant: the length is not looked at
LengthPositiveAlways(v) == TRUE

\* v.length > 0
LengthPositive(v) ==
  CASE v.t = "arr" -> Len(v.items) > 0
    [] v.t = "str" -> Len(v.s) > 0
    [] v.t = "obj" -> "length" \in DOMAIN v.fields /\ v.fields["length"].t = "num"
                        /\ v.fields["length"].s # <<"0">>
    [] OTHER -> FALSE

\* generateCursorRuleMd(skill)
generateCursorRuleMd(skill) ==
  LET triggers == OrElse(Get(skill, "triggers"), JArr(<<>>))
      guarantees == OrElse(Get(skill, "guarantees"), JArr(<<>>))
      non_goals == Get(skill, "non_goals")
      notes == Get(skill, "notes")
      avoid == Truthy(non_goals) /\ LengthPositive(non_goals)
  IN  IF PropThrows(skill) \/ IterThrows(triggers) \/ IterThrows(guarantees)
         \/ (avoid /\ IterThrows(non_goals))
      THEN [threw |-> TRUE, text |-> <<>>]
      ELSE [threw |-> FALSE,
            text |-> JoinStr(
              << <<"#", " ">> \o StringOf(Get(skill, "title"))
                   \o <<" ", "(", "C", "u", "r", "s", "o", "r", " ", "r", "u", "l", "e", ")">>,
                 <<"s", "c", "o", "p", "e", ":", " ", "p", "r", "o", "j", "e", "c", "t">>,
                 <<"v", "e", "r", "s", "i", "o", "n", ":", " ">> \o StringOf(Get(skill, "version")),
                 <<>>,
                 <<"A", "p", "p", "l", "y", " ", "t", "h", "i", "s", " ", "r", "u", "l", "e", " ",
                   "w", "h", "e", "n", " ", "t", "h", "e", " ", "u", "s", "e", "r", " ",
                   "a", "s", "k", "s", " ", "t", "o", ":">> >>
              \o ItemLines(IterItems(triggers))
              \o << <<>>,
                    <<"W", "h", "e", "n", " ", "g", "e", "n", "e", "r", "a", "t", "i", "n", "g", " ",
                      "o", "r", " ", "e", "d", "i", "t", "i", "n", "g", " ",
                      "o", "u", "t", "p", "u", "t", ":">> >>
              \o ItemLines(IterItems(guarantees))
              \o (IF Truthy(notes) THEN << <<>>, JoinItem(notes) >> ELSE <<>>)
              \o (IF avoid
                    THEN << <<>>, <<"A", "v", "o", "i", "d", ":">> >> \o ItemLines(IterItems(non_goals))
                    ELSE <<>>)
              \o << <<>>,
                    <<"#", " ", "m", "e", "t", "a", "d", "a", "t", "a">>,
                    <<"i", "d", ":", " ">> \o StringOf(Get(skill, "id")) >>,
              <<NL>>)]

----------------------------------------------------------------------------
(* The filesystem *)

N_a == <<"a">>
N_a_b == <<"a", "-", "b">>
DirNames == {N_a, N_a_b}
SKILL_MD == <<"S", "K", "I", "L", "L", ".", "m", "d">>
CURSOR_RULE_MD == <<"c", "u", "r", "s", "o", "r", ".", "r", "u", "l", "e", ".", "m", "d">>
README_MD == <<"R", "E", "A", "D", "M", "E", ".", "m", "d">>
MISSING_JSON == <<"m", "i", "s", "s", "i", "n", "g", ".", "j", "s", "o", "n">>
ReadmePath == repoRoot \o <<README_MD>>

\* the string of an absolute path
PathString(p) == <<"/">> \o JoinStr(p, <<"/">>)

\* fs.existsSync
Exists(p) == p \in fsDirs \/ p \in DOMAIN fsFiles

\* variant: the directory above the one that holds p
DirnameParent(p) == SubSeq(p, 1, Len(p) - 2)

\* path.dirname, path.join(dir, name)
Dirname(p) == SubSeq(p, 1, Len(p) - 1)
PathJoin(dir, name) == Append(dir, name)

\* directories below skills/ that may hold a skill.json, relative to skills/
RelDirs == UNION {[1..m -> DirNames] : m \in 0..MaxDepth}

\* descriptors of the skills tree
SampleId == JStr(<<"n", ".", "s">>)
SampleText == JStr(<<"x">>)
GoodVersion == JStr(<<"1", ".", "1", ".", "1">>)
ValidDescriptor ==
  JsonFile(JObj(<<"id", "title", "version", "description", "triggers">>,
                ("id" :> SampleId) @@ ("title" :> SampleText) @@ ("version" :> GoodVersion)
                @@ ("description" :> SampleText) @@ ("triggers" :> JArr(<<SampleText>>))))
NoTitleDescriptor ==
  JsonFile(JObj(<<"id", "version", "description">>,
                ("id" :> SampleId) @@ ("version" :> GoodVersion) @@ ("description" :> SampleText)))
BadVersionDescriptor ==
  JsonFile(JObj(<<"id", "title", "version", "description">>,
                ("id" :> SampleId) @@ ("title" :> SampleText)
                @@ ("version" :> JStr(<<"1", ".", "1">>)) @@ ("description" :> SampleText)))
DescriptorPool == {ValidDescriptor, NoTitleDescriptor, BadVersionDescriptor, NotJson}

\* the tree that holds a skill.json in each directory of S
TreeDirs(S) ==
  {skillsDir \o SubSeq(d, 1, n) : <<d, n>> \in {<<d, n>> \in S \X (0..MaxDepth) : n <= Len(d)}}

Init ==
  /\ \E S \in SUBSET RelDirs :
       /\ Cardinality(S) <= MaxSkills
       /\ \E rootExists \in BOOLEAN :
            /\ S # {} => rootExists
            /\ fsDirs = {<<>>, repoRoot}
                          \cup (IF rootExists THEN {skillsDir} \cup TreeDirs(S) ELSE {})
       /\ \E c \in [S -> DescriptorPool] :
            fsFiles = [p \in {skillsDir \o d \o <<SKILL_JSON>> : d \in S} \cup {ReadmePath} |->
                         IF p = ReadmePath THEN NotJson
                         ELSE c[SubSeq(p, Len(skillsDir) + 1, Len(p) - 1)]]
  /\ mode = "idle"
  /\ arg = JUndefined
  /\ pc = "idle"
  /\ paths = <<>>
  /\ idx = 0
  /\ failed = FALSE
  /\ exitCode = -1
  /\ stderr = <<>>
  /\ stdout = <<>>
  /\ walked = {}
  /\ trace = <<>>
  /\ lastCall = "none"

----------------------------------------------------------------------------
(* findSkillJsonPaths *)

\* process.argv[2]: undefined, or a string: the empty string, a relative
\* path or an absolute path, given by its components
RelArg(comps) == [t |-> "str", absolute |-> FALSE, comps |-> comps]
AbsArg(comps) == [t |-> "str", absolute |-> TRUE, comps |-> comps]
Args ==
  {JUndefined, RelArg(<<>>), RelArg(<<README_MD>>), RelArg(<<MISSING_JSON>>),
   RelArg(<<SKILLS, N_a>>), RelArg(<<SKILLS, N_a, SKILL_JSON>>),
   AbsArg(skillsDir \o <<N_a_b, SKILL_JSON>>)}

\* `if (singlePath)`: the empty string is falsy
ArgGiven(a) == a.t = "str" /\ (a.absolute \/ a.comps # <<>>)

\* path.isAbsolute(singlePath) ? singlePath : path.resolve(repoRoot, singlePath)
Resolve(a) == IF a.absolute THEN a.comps ELSE repoRoot \o a.comps

\* the orders in which readdirSync may list the names
Listings == {l \in [1..Cardinality(DirNames) -> DirNames] : \A i, j \in DOMAIN l : l[i] = l[j] => i = j}

\* directories with more than one subdirectory: where the listing order shows
BranchDirs == {d \in fsDirs : Cardinality({n \in DirNames : PathJoin(d, n) \in fsDirs}) > 1}

\* the listing orders a run with argument a can meet: none is read when a
\* path is given, or when skills/ does not exist
Orders(a) == IF ArgGiven(a) \/ ~Exists(skillsDir) THEN {<<>>} ELSE [BranchDirs -> Listings]

\* entries of dir that are directories, in the order readdirSync lists them
SubDirs(dir, order) ==
  LET listing == IF dir \in DOMAIN order THEN order[dir] ELSE CHOOSE l \in Listings : TRUE
      present == SelectSeq(listing, LAMBDA n : PathJoin(dir, n) \in fsDirs)
  IN  [i \in 1..Len(present) |-> PathJoin(dir, present[i])]

\* validateSkill.js walk(dir): the directories visited, in order
RECURSIVE walk(_, _), walkEach(_, _)
walk(dir, order) == <<dir>> \o walkEach(SubDirs(dir, order), order)
walkEach(dirs, order) ==
  IF dirs = <<>> THEN <<>> ELSE walk(Head(dirs), order) \o walkEach(Tail(dirs), order)

\* the skill.json paths pushed while visiting dirs
Pushed(dirs) ==
  LET have == SelectSeq(dirs, LAMBDA d : Exists(PathJoin(d, SKILL_JSON)))
  IN  [i \in 1..Len(have) |-> PathJoin(have[i], SKILL_JSON)]

\* variant: the paths are returned in the order they were found
SortNone(ps) == ps

\* paths.sort(): ascending order of the path strings, by code units
RECURSIVE SortInsert(_, _), Sort(_)
SortInsert(x, sorted) ==
  IF sorted = <<>> THEN <<x>>
  ELSE IF StrLess(PathString(Head(sorted)), PathString(x))
    THEN <<Head(sorted)>> \o SortInsert(x, Tail(sorted))
  ELSE <<x>> \o sorted
Sort(ps) ==
  IF ps = <<>> THEN <<>>
  ELSE LET rest == Sort(Tail(ps)) IN SortInsert(Head(ps), rest)

\* variant: the given path is returned without the existence check
FindSingleUnchecked(a) ==
  [exit |-> FALSE, paths |-> <<Resolve(a)>>, walked |-> {}, err |-> <<>>]

\* findSkillJsonPaths(singlePath) with a given path (the same in both
\* scripts): 'Not found:' and exit(1), or the one resolved path
FindSingle(a) ==
  LET resolved == Resolve(a)
  IN  IF ~Exists(resolved)
      THEN [exit |-> TRUE, paths |-> <<>>, walked |-> {},
            err |-> <<[path |-> resolved, msg |-> [kind |-> "notfound"]]>>]
      ELSE [exit |-> FALSE, paths |-> <<resolved>>, walked |-> {}, err |-> <<>>]

\* validateSkill.js: findSkillJsonPaths(singlePath), recursive walk, with
\* readdirSync listing the directories as `order` says
findSkillJsonPaths(a, order) ==
  IF ArgGiven(a) THEN FindSingle(a)
  ELSE IF ~Exists(skillsDir)
    THEN [exit |-> FALSE, paths |-> <<>>, walked |-> {}, err |-> <<>>]
  ELSE LET visited == walk(skillsDir, order)
       IN  [exit |-> FALSE, paths |-> Sort(Pushed(visited)),
            walked |-> {visited[i] : i \in 1..Len(visited)}, err |-> <<>>]

\* generateSkillFiles.js: findSkillJsonPaths(singlePath), the directories
\* directly below skills/
findSkillJsonPathsGen(a, order) ==
  IF ArgGiven(a) THEN FindSingle(a)
  ELSE IF ~Exists(skillsDir)
    THEN [exit |-> FALSE, paths |-> <<>>, walked |-> {}, err |-> <<>>]
  ELSE [exit |-> FALSE, paths |-> Sort(Pushed(SubDirs(skillsDir, order))),
        walked |-> {skillsDir}, err |-> <<>>]

----------------------------------------------------------------------------
(* validateSkill.js: the script.  In the actions a value that is used
   several times is bound with \E x \in {e}, which evaluates e once. *)

UsageMsg == <<[path |-> <<>>, msg |-> [kind |-> "usage"]],
              [path |-> <<>>, msg |-> [kind |-> "usage-no-path"]]>>

\* const single = process.argv[2]; const paths = findSkillJsonPaths(single);
\* if (paths.length === 0) { usage; process.exit(1) }; let failed = false
ValidateStart(a) ==
  /\ pc = "idle"
  /\ mode' = "validate"
  /\ arg' = a
  /\ \E order \in Orders(a) : \E found \in {findSkillJsonPaths(a, order)} :
           /\ paths' = found.paths
           /\ walked' = found.walked
           /\ IF found.exit
              THEN /\ stderr' = stderr \o found.err
                   /\ exitCode' = 1
                   /\ pc' = "exited"
              ELSE IF Len(found.paths) = 0
              THEN /\ stderr' = stderr \o UsageMsg
                   /\ exitCode' = 1
                   /\ pc' = "exited"
              ELSE /\ pc' = "loop"
                   /\ UNCHANGED <<stderr, exitCode>>
  /\ failed' = FALSE
  /\ UNCHANGED <<fsDirs, fsFiles, idx, stdout, trace, lastCall>>

\* fs.readFileSync(p, 'utf8') raises on a directory (EISDIR)
ReadThrows(p) == p \notin DOMAIN fsFiles

UncaughtMsg(p) == [path |-> p, msg |-> [kind |-> "uncaught"]]

\* variant: the loop stops at the first descriptor that fails
LoopNextBreaks(ret) == IF ret THEN idx + 1 ELSE Len(paths)

\* for (const p of paths): the number of items taken after this one
LoopNext(ret) == idx + 1

\* if (!validateOne(p)) failed = true
FailedAfter(ret) == IF ~ret THEN TRUE ELSE failed

\* one iteration of the loop: validateOne(p); an exception it raises is
\* caught nowhere, Node prints it and the process ends with status 1
ValidateStep ==
  /\ pc = "loop" /\ mode = "validate"
  /\ idx < Len(paths)
  /\ \E p \in {paths[idx + 1]} :
     \E r \in {IF ReadThrows(p)
                THEN [threw |-> TRUE, ret |-> FALSE, err |-> <<>>, out |-> <<>>]
                ELSE validateOne(p, fsFiles[p])} :
         /\ trace' = Append(trace, [op |-> "read", path |-> p])
         /\ lastCall' = CallOutcome(r)
         /\ stdout' = stdout \o r.out
         /\ IF r.threw
            THEN /\ stderr' = Append(stderr, UncaughtMsg(p))
                 /\ exitCode' = 1
                 /\ pc' = "exited"
                 /\ UNCHANGED <<idx, failed>>
            ELSE /\ stderr' = stderr \o r.err
                 /\ failed' = FailedAfter(r.ret)
                 /\ idx' = LoopNext(r.ret)
                 /\ UNCHANGED <<exitCode, pc>>
  /\ UNCHANGED <<fsDirs, fsFiles, mode, arg, paths, walked>>

\* variant: any failure is reported as status 1
ExitStatusOne(f) == IF f THEN 1 ELSE 0

\* failed ? 2 : 0
ExitStatus(f) == IF f THEN 2 ELSE 0

\* process.exit(failed ? 2 : 0)
ValidateExit ==
  /\ pc = "loop" /\ mode = "validate"
  /\ idx = Len(paths)
  /\ exitCode' = ExitStatus(failed)
  /\ pc' = "exited"
  /\ UNCHANGED <<fsDirs, fsFiles, mode, arg, paths, idx, failed, stderr, stdout, walked,
                 trace, lastCall>>

----------------------------------------------------------------------------
(* generateSkillFiles.js: the script *)

\* const single = process.argv[2]; const paths = findSkillJsonPaths(single);
\* if (paths.length === 0) { error; process.exit(1) }; console.log(`Generating ...`)
\* the findSkillJsonPaths of the version m of the script
FindFor(m, a, order) ==
  IF m = "generate" THEN findSkillJsonPathsGen(a, order) ELSE findSkillJsonPaths(a, order)

\* m names the version of the script that runs
GenerateMain(m, a) ==
  /\ pc = "idle"
  /\ mode' = m
  /\ arg' = a
  /\ \E order \in Orders(a) : \E found \in {FindFor(m, a, order)} :
           /\ paths' = found.paths
           /\ walked' = found.walked
           /\ IF found.exit
              THEN /\ stderr' = stderr \o found.err
                   /\ exitCode' = 1
                   /\ pc' = "exited"
                   /\ UNCHANGED stdout
              ELSE IF Len(found.paths) = 0
              THEN /\ stderr' = Append(stderr, [path |-> <<>>, msg |-> [kind |-> "nothing"]])
                   /\ exitCode' = 1
                   /\ pc' = "exited"
                   /\ UNCHANGED stdout
              ELSE /\ stdout' = Append(stdout, [kind |-> "Generating", n |-> Len(found.paths)])
                   /\ pc' = "loop"
                   /\ UNCHANGED <<stderr, exitCode>>
  /\ UNCHANGED <<fsDirs, fsFiles, idx, failed, trace, lastCall>>

\* generateSkillFiles.js is started
GenerateStart(a) == GenerateMain("generate", a)

\* the version of the script with the frontmatter is started
GenerateStartFrontmatter(a) == GenerateMain("generateFrontmatter", a)

\* the generateSkillMd of the version m of the script
SkillMdFor(m, skill) ==
  IF m = "generate" THEN generateSkillMd(skill) ELSE generateSkillMdFrontmatter(skill)

\* variant: the text is added to what the file already holds (appendFileSync)
WriteFileAppend(files, p, text) ==
  IF p \in DOMAIN files /\ files[p].kind = "text"
  THEN (p :> TextFile(files[p].text \o text)) @@ files
  ELSE (p :> TextFile(text)) @@ files

\* fs.writeFileSync(p, text): the file is created or replaced in full
WriteFile(files, p, text) == (p :> TextFile(text)) @@ files

\* processOne(skillJsonPath): read and parse, render and write SKILL.md, render
\* and write cursor.rule.md, report. An exception is caught nowhere: Node
\* prints it and the process ends with status 1 where it was raised.
\* m names the version of the script that runs.
ProcessOne(m) ==
  /\ mode = m
  /\ pc = "loop"
  /\ idx < Len(paths)
  /\ \E p \in {paths[idx + 1]} :
     \E parsed \in {IF ReadThrows(p) THEN [threw |-> TRUE, value |-> JUndefined]
                     ELSE JSONParse(fsFiles[p])} :
     \E md \in {SkillMdFor(m, parsed.value)} :
     \E rule \in {generateCursorRuleMd(parsed.value)} :
     LET dir == Dirname(p)
         mdPath == PathJoin(dir, SKILL_MD)
         rulePath == PathJoin(dir, CURSOR_RULE_MD)
         read == [op |-> "read", path |-> p]
     IN  IF parsed.threw \/ md.threw
         THEN /\ trace' = Append(trace, read)
              /\ lastCall' = "threw"
              /\ stderr' = Append(stderr, UncaughtMsg(p))
              /\ exitCode' = 1
              /\ pc' = "exited"
              /\ UNCHANGED <<fsFiles, idx, stdout>>
         ELSE IF rule.threw
         THEN /\ fsFiles' = WriteFile(fsFiles, mdPath, md.text)
              /\ trace' = trace \o <<read, [op |-> "write", path |-> mdPath]>>
              /\ lastCall' = "threw"
              /\ stderr' = Append(stderr, UncaughtMsg(p))
              /\ exitCode' = 1
              /\ pc' = "exited"
              /\ UNCHANGED <<idx, stdout>>
         ELSE /\ fsFiles' = WriteFile(WriteFile(fsFiles, mdPath, md.text), rulePath, rule.text)
              /\ trace' = trace \o <<read, [op |-> "write", path |-> mdPath],
                                     [op |-> "write", path |-> rulePath]>>
              /\ lastCall' = "done"
              /\ stdout' = Append(stdout, [kind |-> "item", dir |-> dir])
              /\ idx' = idx + 1
              /\ UNCHANGED <<stderr, exitCode, pc>>
  /\ UNCHANGED <<fsDirs, mode, arg, paths, failed, walked>>

\* for (const p of paths) processOne(p): one iteration
GenerateStep == ProcessOne("generate")

GenerateStepFrontmatter == ProcessOne("generateFrontmatter")

\* console.log('Done.'); the script ends, status 0
GenerateDone ==
  /\ pc = "loop" /\ mode \in {"generate", "generateFrontmatter"}
  /\ idx = Len(paths)
  /\ stdout' = Append(stdout, [kind |-> "Done"])
  /\ exitCode' = 0
  /\ pc' = "exited"
  /\ UNCHANGED <<fsDirs, fsFiles, mode, arg, paths, idx, failed, stderr, walked, trace, lastCall>>

----------------------------------------------------------------------------

Next ==
  \/ \E a \in Args : ValidateStart(a)
  \/ ValidateStep
  \/ ValidateExit
  \/ \E a \in Args : GenerateStart(a)
  \/ GenerateStep
  \/ GenerateDone

Spec == Init /\ [][Next]_vars

----------------------------------------------------------------------------
(* Claims about the two scripts, checked under Spec *)

Exited == pc = "exited"
Started == pc # "idle"
Batch == ~ArgGiven(arg)
PathSet == {paths[i] : i \in 1..Len(paths)}
Reads == SelectSeq(trace, LAMBDA e : e.op = "read")
Writes == {trace[i].path : i \in {i \in 1..Len(trace) : trace[i].op = "write"}}

\* every skill.json of the tree below skills/, at any depth
AllSkillJsons ==
  {p \in DOMAIN fsFiles :
     /\ Len(p) > Len(skillsDir)
     /\ SubSeq(p, 1, Len(skillsDir)) = skillsDir
     /\ p[Len(p)] = SKILL_JSON}

\* the file at p is a descriptor that passes validation: a JSON object with
\* the four required keys and a version that starts with x.y.z
PassesAt(p) ==
  /\ p \in DOMAIN fsFiles
  /\ fsFiles[p].kind = "json"
  /\ fsFiles[p].value.t = "obj"
  /\ {"id", "title", "version", "description"} \subseteq DOMAIN fsFiles[p].value.fields
  /\ SemverPrefix(StringOf(fsFiles[p].value.fields["version"]))

\* reading or checking p raises: a directory, text that is not JSON, or a
\* JSON value that is neither an object nor an array
RaisesAt(p) ==
  \/ p \notin DOMAIN fsFiles
  \/ fsFiles[p].kind # "json"
  \/ fsFiles[p].value.t \notin {"obj", "arr"}

NotJsonAt(p) == p \in DOMAIN fsFiles /\ fsFiles[p].kind # "json"

ArgMissing == ArgGiven(arg) /\ ~Exists(Resolve(arg))

\* C4 (as claimed): Validate ends with 1 exactly when the working set is
\* empty or the given path does not exist, with 2 exactly when the working
\* set is not empty and a descriptor failed validation, with 0 exactly when
\* it is not empty and every descriptor passed.
C4_ExitCodes ==
  (Exited /\ mode = "validate") =>
    /\ exitCode = 1 <=> (Len(paths) = 0 \/ ArgMissing)
    /\ exitCode = 2 <=> (Len(paths) > 0 /\ \E p \in PathSet : ~PassesAt(p))
    /\ exitCode = 0 <=> (Len(paths) > 0 /\ \A p \in PathSet : PassesAt(p))

\* C4 (amended): Validate ends with 1 exactly when the working set is empty,
\* the given path does not exist, or a descriptor of the working set makes
\* validateOne raise; with 2 exactly when none raises and one fails
\* validation; with 0 exactly when the set is not empty and all pass.
C4_ExitCodesWithRaise ==
  (Exited /\ mode = "validate") =>
    /\ exitCode \in {0, 1, 2}
    /\ exitCode = 1 <=> (Len(paths) = 0 \/ ArgMissing \/ \E p \in PathSet : RaisesAt(p))
    /\ exitCode = 2 <=> /\ Len(paths) > 0
                        /\ \A p \in PathSet : ~RaisesAt(p)
                        /\ \E p \in PathSet : ~PassesAt(p)
    /\ exitCode = 0 <=> (Len(paths) > 0 /\ \A p \in PathSet : PassesAt(p))

C4_Witness ==
  /\ Exited /\ mode = "validate" /\ arg = JUndefined
  /\ skillsDir \notin fsDirs
  /\ exitCode = 1 /\ walked = {} /\ trace = <<>>

\* C5: in batch Validate a validation failure never stops the run: the
\* descriptors are validated one by one in the order of the working set,
\* each once; a run that no exception ended has validated all of them, and
\* its status is 2 exactly when any of them failed.
C5_NoEarlyAbort ==
  (mode = "validate" /\ Batch /\ Started) =>
    /\ Len(Reads) <= Len(paths)
    /\ \A i \in 1..Len(Reads) : Reads[i].path = paths[i]
    /\ pc = "loop" => Len(Reads) = idx
    /\ (Exited /\ Len(paths) > 0 /\ lastCall # "threw") =>
         /\ Len(Reads) = Len(paths)
         /\ exitCode = 2 <=> \E p \in PathSet : ~PassesAt(p)
         /\ exitCode = 0 <=> \A p \in PathSet : PassesAt(p)

C5_Witness ==
  /\ Exited /\ mode = "validate" /\ arg = JUndefined
  /\ Len(paths) = 2 /\ Len(Reads) = 2
  /\ fsFiles[paths[1]] = BadVersionDescriptor
  /\ fsFiles[paths[2]] = ValidDescriptor
  /\ exitCode = 2

\* C7: a descriptor that is not well-formed JSON ends the run, in Validate and
\* in Generate: the loop never gets past it, it produces neither a validation
\* diagnostic nor a confirmation nor a document, no descriptor after it is
\* read and no document is written for one, and the run ends with neither 0
\* nor 2.
C7_ParseErrorIsFatal ==
  \A i \in 1..Len(paths) :
    NotJsonAt(paths[i]) =>
      /\ idx < i
      /\ \A j \in (i + 1)..Len(paths) :
           /\ \A n \in 1..Len(trace) : trace[n].path # paths[j]
           /\ PathJoin(Dirname(paths[j]), SKILL_MD) \notin Writes
           /\ PathJoin(Dirname(paths[j]), CURSOR_RULE_MD) \notin Writes
      /\ \A n \in 1..Len(stderr) :
           stderr[n].path = paths[i] => stderr[n].msg.kind = "uncaught"
      /\ PathJoin(Dirname(paths[i]), SKILL_MD) \notin Writes
      /\ PathJoin(Dirname(paths[i]), CURSOR_RULE_MD) \notin Writes
      /\ Exited => (exitCode \notin {0, 2} /\ lastCall = "threw")

C7_Witness ==
  /\ Exited /\ mode = "generate" /\ arg = JUndefined
  /\ Len(paths) = 2
  /\ fsFiles[paths[1]] = ValidDescriptor
  /\ NotJsonAt(paths[2])
  /\ Len(Reads) = 2
  /\ exitCode = 1

\* C8: with a path argument, a path that does not exist makes the run print
\* 'Not found:' with the resolved path and end with 1 before any file is read
\* or written; a path that exists is the whole working set; in both cases no
\* directory is listed.
C8_ExplicitPath ==
  (Started /\ ArgGiven(arg)) =>
    /\ walked = {}
    /\ ~Exists(Resolve(arg)) =>
         /\ Exited /\ exitCode = 1
         /\ stderr = <<[path |-> (IF arg.absolute THEN arg.comps ELSE repoRoot \o arg.comps),
                        msg |-> [kind |-> "notfound"]]>>
         /\ stdout = <<>>
         /\ trace = <<>>
    /\ Exists(Resolve(arg)) =>
         /\ paths = <<Resolve(arg)>>
         /\ \A n \in 1..Len(Reads) : Reads[n].path = Resolve(arg)

C8_Witness ==
  /\ Exited /\ mode = "generate" /\ arg = RelArg(<<MISSING_JSON>>)
  /\ AllSkillJsons # {}
  /\ exitCode = 1 /\ trace = <<>>

\* a comes before b in the order of the code units (a proper prefix first)
Before(a, b) ==
  \E k \in 1..Len(b) :
    /\ k <= Len(a) + 1
    /\ \A n \in 1..(k - 1) : a[n] = b[n]
    /\ k = Len(a) + 1 \/ CharCode[a[k]] < CharCode[b[k]]

\* C9: in batch mode the working set is strictly ascending in the order of
\* the full path strings (so it has no duplicates), whatever the order in
\* which the directories were listed, and the items are processed in that
\* order: the n-th file read is the n-th path.
C9_SortedAndInOrder ==
  (Started /\ Batch) =>
    /\ \A i, j \in 1..Len(paths) :
         i < j => Before(PathString(paths[i]), PathString(paths[j]))
    /\ Len(Reads) <= Len(paths)
    /\ \A n \in 1..Len(Reads) : Reads[n].path = paths[n]

C9_Witness ==
  /\ Exited /\ mode = "validate" /\ arg = JUndefined
  /\ paths = <<skillsDir \o <<N_a_b, SKILL_JSON>>, skillsDir \o <<N_a, SKILL_JSON>>>>
  /\ Len(Reads) = 2
  /\ Reads[1].path = skillsDir \o <<N_a_b, SKILL_JSON>>

\* C10 (as claimed): in batch mode the working set of Generate holds every
\* skill.json of every directory below skills/, at any depth.
C10_GenerateFindsAll ==
  (Started /\ mode = "generate" /\ Batch) =>
    {p \in AllSkillJsons : Len(p) > Len(skillsDir) + 1} \subseteq PathSet

----------------------------------------------------------------------------
(* Specification of one Generate run on one descriptor, over the shapes a
   descriptor can take, for both versions of generateSkillMd *)

fieldOrder == <<"id", "title", "version", "description", "triggers", "inputs",
                "guarantees", "non_goals", "notes">>

\* the object with the keys of fieldOrder whose value in val is not Absent
MkDescriptor(val) ==
  JObj(SelectSeq(fieldOrder, LAMBDA k : val[k] # Absent),
       [k \in {k \in DOMAIN val : val[k] # Absent} |-> val[k]])

\* arrays of at most MaxItems strings over the letters of A
ListsOver(A) == {JArr([i \in DOMAIN l |-> JStr(<<l[i]>>)]) : l \in StrUpTo(A, MaxItems)}

InputsValues ==
  {JObj(<<>>, <<>>),
   JObj(<<"k">>, ("k" :> JStr(<<"x">>))),
   JObj(<<"k", "j">>, ("k" :> JStr(<<"x">>)) @@ ("j" :> JStr(<<"y">>))),
   JObj(<<"j", "k">>, ("k" :> JStr(<<"x">>)) @@ ("j" :> JStr(<<"y">>)))}

\* id, title, version and description: an id with one dot, with none and with
\* two, and descriptors that lack one of the other three
RequiredValues ==
  {("id" :> i) @@ ("title" :> SampleText) @@ ("version" :> GoodVersion)
     @@ ("description" :> JStr(<<"d">>)) :
       i \in {SampleId, JStr(<<"n", "s">>), JStr(<<"a", ".", "b", ".", "c">>)}}
  \cup {("id" :> SampleId) @@ ("title" :> Absent) @@ ("version" :> GoodVersion)
          @@ ("description" :> JStr(<<"d">>)),
        ("id" :> SampleId) @@ ("title" :> SampleText) @@ ("version" :> Absent)
          @@ ("description" :> JStr(<<"d">>)),
        ("id" :> SampleId) @@ ("title" :> SampleText) @@ ("version" :> GoodVersion)
          @@ ("description" :> Absent)}

RenderDescriptors ==
  {MkDescriptor(r @@ ("triggers" :> t) @@ ("inputs" :> i) @@ ("guarantees" :> g)
                  @@ ("non_goals" :> n) @@ ("notes" :> o)) :
     r \in RequiredValues,
     t \in ListsOver({"t", "u"}) \cup {Absent},
     i \in InputsValues \cup {Absent},
     g \in ListsOver({"g"}) \cup {Absent},
     n \in {Absent, JArr(<<>>), JArr(<<JStr(<<"n">>)>>)},
     o \in {Absent, JStr(<<>>), JStr(<<"o">>)}}

\* node scripts/generateSkillFiles.js skills/a/skill.json
RenderArg == RelArg(<<SKILLS, N_a, SKILL_JSON>>)

InitRender ==
  /\ fsDirs = {<<>>, repoRoot, skillsDir, skillsDir \o <<N_a>>}
  /\ \E d \in RenderDescriptors : fsFiles = (OnePath :> JsonFile(d))
  /\ mode = "idle"
  /\ arg = JUndefined
  /\ pc = "idle"
  /\ paths = <<>>
  /\ idx = 0
  /\ failed = FALSE
  /\ exitCode = -1
  /\ stderr = <<>>
  /\ stdout = <<>>
  /\ walked = {}
  /\ trace = <<>>
  /\ lastCall = "none"

NextRender ==
  \/ GenerateStart(RenderArg)
  \/ GenerateStartFrontmatter(RenderArg)
  \/ GenerateStep
  \/ GenerateStepFrontmatter
  \/ GenerateDone

SpecRender == InitRender /\ [][NextRender]_vars

----------------------------------------------------------------------------
(* Claims about the two documents, checked under SpecRender *)

TheSkill == fsFiles[OnePath].value
SkillMdPath == PathJoin(Dirname(OnePath), SKILL_MD)
RulePath == PathJoin(Dirname(OnePath), CURSOR_RULE_MD)
Rendered == SkillMdPath \in DOMAIN fsFiles /\ RulePath \in DOMAIN fsFiles

\* the position of the first line feed of text at or after i (Len(text) + 1
\* when there is none)
RECURSIVE NextNL(_, _)
NextNL(text, i) == IF i > Len(text) \/ text[i] = NL THEN i ELSE NextNL(text, i + 1)

\* the lines of a text: the pieces between its line feeds
RECURSIVE SplitFrom(_, _)
SplitFrom(text, i) ==
  LET j == NextNL(text, i)
  IN  IF j > Len(text) THEN <<SubSeq(text, i, j - 1)>>
      ELSE <<SubSeq(text, i, j - 1)>> \o SplitFrom(text, j + 1)
LinesOf(text) == SplitFrom(text, 1)

SkillMdDoc == LinesOf(fsFiles[SkillMdPath].text)
RuleDoc == LinesOf(fsFiles[RulePath].text)

StartsWith(l, pre) == Len(l) >= Len(pre) /\ SubSeq(l, 1, Len(pre)) = pre
IsItem(l) == StartsWith(l, <<"-", " ">>)
Positions(L, l) == {i \in 1..Len(L) : L[i] = l}
Has(k) == k \in DOMAIN TheSkill.fields

\* the entries of the list field k (none when the field is absent), each as
\* the list item it is shown as
ItemsFor(k) ==
  IF Has(k) THEN [i \in 1..Len(TheSkill.fields[k].items) |->
                    <<"-", " ">> \o TheSkill.fields[k].items[i].s]
  ELSE <<>>

\* the entries of inputs in insertion order, each shown as 'key: value'
InputItems ==
  IF Has("inputs")
  THEN [i \in 1..Len(TheSkill.fields["inputs"].keys) |->
          <<"-", " ">> \o KeyName[TheSkill.fields["inputs"].keys[i]] \o <<":", " ">>
            \o TheSkill.fields["inputs"].fields[TheSkill.fields["inputs"].keys[i]].s]
  ELSE <<>>

\* n is the last dot-separated segment of id (id itself when it has no dot)
IsShortName(n, id) ==
  /\ \A i \in 1..Len(n) : n[i] # "."
  /\ \/ n = id
     \/ /\ Len(id) > Len(n)
        /\ SubSeq(id, Len(id) - Len(n) + 1, Len(id)) = n
        /\ id[Len(id) - Len(n)] = "."

H_Purpose == <<"#", "#", " ", "P", "u", "r", "p", "o", "s", "e">>
H_Triggers == <<"#", "#", " ", "T", "r", "i", "g", "g", "e", "r", "s">>
H_Inputs == <<"#", "#", " ", "I", "n", "p", "u", "t", "s">>
H_Guarantees == <<"#", "#", " ", "G", "u", "a", "r", "a", "n", "t", "e", "e", "s">>
H_NonGoals == <<"#", "#", " ", "N", "o", "n", "-", "g", "o", "a", "l", "s">>
H_Notes == <<"#", "#", " ", "N", "o", "t", "e", "s">>

\* L, from position first on, is the body of the definition document: title
\* line, version line, Purpose with the description, then the five sections
\* in order, each list section with the items of its own field and nothing
\* else but an empty line
IsSkillMdBody(L, first) ==
  /\ Len(L) >= first + 4
  /\ StartsWith(L[first], <<"#", " ">>)
  /\ Has("title") => L[first] = <<"#", " ">> \o TheSkill.fields["title"].s
  /\ StartsWith(L[first + 1], <<"v", "e", "r", "s", "i", "o", "n", ":", " ">>)
  /\ Has("version") =>
       L[first + 1] = <<"v", "e", "r", "s", "i", "o", "n", ":", " ">> \o TheSkill.fields["version"].s
  /\ L[first + 2] = <<>>
  /\ L[first + 3] = H_Purpose
  /\ Has("description") => L[first + 4] = TheSkill.fields["description"].s
  /\ Positions(L, H_Purpose) = {first + 3}
  /\ Positions(L, H_Triggers) = {first + 6}
  /\ L[first + 5] = <<>>
  /\ \E pI \in Positions(L, H_Inputs) : \E pG \in Positions(L, H_Guarantees) :
     \E pN \in Positions(L, H_NonGoals) : \E pO \in Positions(L, H_Notes) :
       /\ Positions(L, H_Inputs) = {pI} /\ Positions(L, H_Guarantees) = {pG}
       /\ Positions(L, H_NonGoals) = {pN} /\ Positions(L, H_Notes) = {pO}
       /\ first + 6 < pI /\ pI < pG /\ pG < pN /\ pN < pO
       /\ SubSeq(L, first + 7, pI - 1) = ItemsFor("triggers") \o << <<>> >>
       /\ SubSeq(L, pI + 1, pG - 1) = InputItems \o << <<>> >>
       /\ SubSeq(L, pG + 1, pN - 1) = ItemsFor("guarantees") \o << <<>> >>
       /\ SubSeq(L, pN + 1, pO - 1) = ItemsFor("non_goals") \o << <<>> >>
       /\ SubSeq(L, pO + 1, Len(L)) =
            (IF Has("notes") /\ TheSkill.fields["notes"].s # <<>>
             THEN <<TheSkill.fields["notes"].s>> ELSE <<>>)

\* L starts with the header block: the short name and the description
\* between two '---' lines, then an empty line
HasHeader(L) ==
  /\ Len(L) >= 5
  /\ L[1] = <<"-", "-", "-">>
  /\ StartsWith(L[2], <<"n", "a", "m", "e", ":", " ">>)
  /\ IsShortName(SubSeq(L[2], 7, Len(L[2])), TheSkill.fields["id"].s)
  /\ StartsWith(L[3], <<"d", "e", "s", "c", "r", "i", "p", "t", "i", "o", "n", ":", " ">>)
  /\ Has("description") =>
       L[3] = <<"d", "e", "s", "c", "r", "i", "p", "t", "i", "o", "n", ":", " ">>
                \o TheSkill.fields["description"].s
  /\ L[4] = <<"-", "-", "-">>
  /\ L[5] = <<>>

R_Apply ==
  <<"A", "p", "p", "l", "y", " ", "t", "h", "i", "s", " ", "r", "u", "l", "e", " ",
    "w", "h", "e", "n", " ", "t", "h", "e", " ", "u", "s", "e", "r", " ",
    "a", "s", "k", "s", " ", "t", "o", ":">>
R_When ==
  <<"W", "h", "e", "n", " ", "g", "e", "n", "e", "r", "a", "t", "i", "n", "g", " ",
    "o", "r", " ", "e", "d", "i", "t", "i", "n", "g", " ", "o", "u", "t", "p", "u", "t", ":">>
R_Avoid == <<"A", "v", "o", "i", "d", ":">>
R_Metadata == <<"#", " ", "m", "e", "t", "a", "d", "a", "t", "a">>
R_Suffix == <<" ", "(", "C", "u", "r", "s", "o", "r", " ", "r", "u", "l", "e", ")">>

EndsWith(l, suf) == Len(l) >= Len(suf) /\ SubSeq(l, Len(l) - Len(suf) + 1, Len(l)) = suf
NotesGiven == Has("notes") /\ TheSkill.fields["notes"].s # <<>>
NonGoalsGiven == Has("non_goals") /\ Len(TheSkill.fields["non_goals"].items) > 0

\* L is the rule document: title line with the suffix, scope line, version
\* line, the trigger lead-in and its items, the guarantees lead-in and its
\* items, the notes when given, the Avoid block when non_goals has entries,
\* and last the metadata marker and the id line
IsRuleDoc(L) ==
  /\ Len(L) >= 10
  /\ StartsWith(L[1], <<"#", " ">>) /\ EndsWith(L[1], R_Suffix)
  /\ Has("title") => L[1] = <<"#", " ">> \o TheSkill.fields["title"].s \o R_Suffix
  /\ L[2] = <<"s", "c", "o", "p", "e", ":", " ", "p", "r", "o", "j", "e", "c", "t">>
  /\ StartsWith(L[3], <<"v", "e", "r", "s", "i", "o", "n", ":", " ">>)
  /\ Has("version") =>
       L[3] = <<"v", "e", "r", "s", "i", "o", "n", ":", " ">> \o TheSkill.fields["version"].s
  /\ L[4] = <<>>
  /\ Positions(L, R_Apply) = {5}
  /\ Positions(L, R_Metadata) = {Len(L) - 1}
  /\ L[Len(L)] = <<"i", "d", ":", " ">> \o TheSkill.fields["id"].s
  /\ \E pW \in Positions(L, R_When) :
       /\ Positions(L, R_When) = {pW}
       /\ SubSeq(L, 6, pW - 1) = ItemsFor("triggers") \o << <<>> >>
       /\ SubSeq(L, pW + 1, Len(L) - 2) =
            ItemsFor("guarantees")
            \o (IF NotesGiven THEN << <<>>, TheSkill.fields["notes"].s >> ELSE <<>>)
            \o (IF NonGoalsGiven THEN << <<>>, R_Avoid >> \o ItemsFor("non_goals") ELSE <<>>)
            \o << <<>> >>

\* C12: the rule document consists of the title line with '(Cursor rule)',
\* the 'scope: project' line, the version line, the trigger lead-in with one
\* item per triggers entry, the guarantees lead-in with one item per
\* guarantees entry, the notes text when given (after the guarantees, before
\* the Avoid block), the 'Avoid:' block with one item per non_goals entry
\* (when there is an entry), and last the metadata marker and 'id: <id>';
\* the items keep the order of their field.
C12_RuleDocLayout ==
  RulePath \in DOMAIN fsFiles => \E L \in {RuleDoc} : IsRuleDoc(L)

C12_Witness ==
  /\ Exited /\ exitCode = 0 /\ mode = "generate"
  /\ Has("triggers") /\ TheSkill.fields["triggers"] = JArr(<<JStr(<<"u">>), JStr(<<"t">>)>>)
  /\ Has("guarantees") /\ Len(TheSkill.fields["guarantees"].items) = 2
  /\ NotesGiven /\ NonGoalsGiven
  /\ \E L \in {RuleDoc} : L[6] = <<"-", " ", "u">> /\ L[7] = <<"-", " ", "t">>

\* the field k is omitted, or given as empty
Empty(k) ==
  \/ ~Has(k)
  \/ TheSkill.fields[k].t = "arr" /\ TheSkill.fields[k].items = <<>>
  \/ TheSkill.fields[k].t = "obj" /\ TheSkill.fields[k].keys = <<>>
  \/ TheSkill.fields[k].t = "str" /\ TheSkill.fields[k].s = <<>>

OptionalEmpty == Empty("inputs") /\ Empty("guarantees") /\ Empty("non_goals") /\ Empty("notes")

\* C13: a descriptor that omits inputs, guarantees, non_goals and notes (or
\* gives them as empty) is rendered without an error: the run ends with 0 and
\* both documents written; the definition document has the headings Inputs,
\* Guarantees, Non-goals and Notes, once each and in this order, with no list
\* item after the Inputs heading; and for every descriptor the rule document
\* has the 'Avoid:' line exactly when non_goals is a list with an entry.
C13_EmptyOptionalFields ==
  /\ (OptionalEmpty /\ Exited) => (exitCode = 0 /\ lastCall = "done" /\ Rendered)
  /\ (OptionalEmpty /\ SkillMdPath \in DOMAIN fsFiles) =>
       \E L \in {SkillMdDoc} :
       \E pI \in Positions(L, H_Inputs) : \E pG \in Positions(L, H_Guarantees) :
       \E pN \in Positions(L, H_NonGoals) : \E pO \in Positions(L, H_Notes) :
         /\ Positions(L, H_Inputs) = {pI} /\ Positions(L, H_Guarantees) = {pG}
         /\ Positions(L, H_NonGoals) = {pN} /\ Positions(L, H_Notes) = {pO}
         /\ pI < pG /\ pG < pN /\ pN < pO
         /\ \A i \in pI..Len(L) : ~IsItem(L[i])
  /\ RulePath \in DOMAIN fsFiles =>
       \E L \in {RuleDoc} : (Positions(L, R_Avoid) # {}) <=> NonGoalsGiven

C13_Witness ==
  /\ Exited /\ exitCode = 0 /\ mode = "generate"
  /\ ~Has("inputs") /\ ~Has("guarantees") /\ ~Has("non_goals") /\ ~Has("notes")
  /\ Has("triggers") /\ Len(TheSkill.fields["triggers"].items) = 2
  /\ Rendered
  /\ \E L \in {RuleDoc} : Positions(L, R_Avoid) = {}

UNDEFINED == <<"u", "n", "d", "e", "f", "i", "n", "e", "d">>
Lacks == {k \in {"title", "version", "description"} : ~Has(k)}
Rejected == ~validateOne(OnePath, fsFiles[OnePath]).ret

\* title or version is missing and both documents show 'undefined' for it
UndefinedShown(md, rule, first) ==
  /\ ~Has("title") =>
       /\ md[first] = <<"#", " ">> \o UNDEFINED
       /\ rule[1] = <<"#", " ">> \o UNDEFINED \o R_Suffix
  /\ ~Has("version") =>
       /\ md[first + 1] = <<"v", "e", "r", "s", "i", "o", "n", ":", " ">> \o UNDEFINED
       /\ rule[3] = <<"v", "e", "r", "s", "i", "o", "n", ":", " ">> \o UNDEFINED

\* C15 (as claimed): a descriptor that lacks title, version or description is
\* rejected by validateOne and still rendered by Generate: the run ends with
\* 0, both documents are written, and 'undefined' stands where the missing
\* value would (the title lines, the version lines, the Purpose text).
C15_UndefinedInPlace ==
  (Exited /\ Lacks # {}) =>
    /\ Rejected
    /\ exitCode = 0 /\ Rendered
    /\ \E md \in {SkillMdDoc} : \E rule \in {RuleDoc} :
       \E first \in {IF mode = "generate" THEN 1 ELSE 6} :
         /\ UndefinedShown(md, rule, first)
         /\ ~Has("description") => md[first + 4] = UNDEFINED

\* C15 (amended): such a descriptor is rejected by validateOne and still
\* rendered, the run ends with 0 and both documents are written; for a
\* missing title or version both documents show 'undefined' in its place; for
\* a missing description the Purpose text of SKILL.md is empty (only the
\* header of the version with the frontmatter shows 'description: undefined').
C15_UndefinedOrEmpty ==
  (Exited /\ Lacks # {}) =>
    /\ Rejected
    /\ exitCode = 0 /\ Rendered
    /\ \E md \in {SkillMdDoc} : \E rule \in {RuleDoc} :
       \E first \in {IF mode = "generate" THEN 1 ELSE 6} :
         /\ UndefinedShown(md, rule, first)
         /\ ~Has("description") =>
              /\ md[first + 4] = <<>>
              /\ \A i \in 1..Len(rule) : ~EndsWith(rule[i], UNDEFINED)
              /\ mode = "generate" => \A i \in 1..Len(md) : ~EndsWith(md[i], UNDEFINED)
              /\ mode = "generateFrontmatter" =>
                   md[3] = <<"d", "e", "s", "c", "r", "i", "p", "t", "i", "o", "n", ":", " ">>
                             \o UNDEFINED

C15_Witness ==
  /\ Exited /\ exitCode = 0 /\ mode = "generate"
  /\ ~Has("description") /\ Rejected /\ Rendered
  /\ Has("triggers") /\ Len(TheSkill.fields["triggers"].items) = 1

----------------------------------------------------------------------------
(* Specification of repeated Generate runs on one unchanged descriptor, with
   or without documents of an earlier time in its directory *)

RerunDescriptors ==
  {MkDescriptor(("id" :> i) @@ ("title" :> SampleText) @@ ("version" :> GoodVersion)
                  @@ ("description" :> JStr(<<"d">>))
                  @@ ("triggers" :> JArr(<<JStr(<<"t">>), JStr(<<"u">>)>>))
                  @@ ("inputs" :> JObj(<<"k">>, ("k" :> JStr(<<"x">>))))
                  @@ ("guarantees" :> JArr(<<JStr(<<"g">>)>>))
                  @@ ("non_goals" :> n) @@ ("notes" :> o)) :
     i \in {SampleId, JStr(<<"n", "s">>)},
     n \in {Absent, JArr(<<JStr(<<"n">>)>>)},
     o \in {Absent, JStr(<<"o">>)}}

\* what a document file holds before the first run
OldText == TextFile(<<"#", " ", "o", "l", "d", NL, "-", " ", "o", "l", "d">>)

InitRerun ==
  /\ fsDirs = {<<>>, repoRoot, skillsDir, skillsDir \o <<N_a>>}
  /\ \E d \in RerunDescriptors : \E old \in SUBSET {SkillMdPath, RulePath} :
       fsFiles = [p \in {OnePath} \cup old |-> IF p = OnePath THEN JsonFile(d) ELSE OldText]
  /\ mode = "idle"
  /\ arg = JUndefined
  /\ pc = "idle"
  /\ paths = <<>>
  /\ idx = 0
  /\ failed = FALSE
  /\ exitCode = -1
  /\ stderr = <<>>
  /\ stdout = <<>>
  /\ walked = {}
  /\ trace = <<>>
  /\ lastCall = "none"

\* the process has ended and the same script is started once more: a new
\* process, the filesystem as the last one left it
RunAgain ==
  /\ pc = "exited"
  /\ Len(Reads) < MaxRuns
  /\ pc' = "idle"
  /\ arg' = JUndefined
  /\ paths' = <<>>
  /\ idx' = 0
  /\ failed' = FALSE
  /\ exitCode' = -1
  /\ stderr' = <<>>
  /\ stdout' = <<>>
  /\ walked' = {}
  /\ lastCall' = "none"
  /\ UNCHANGED <<fsDirs, fsFiles, mode, trace>>

NextRerun ==
  \/ mode \in {"idle", "generate"} /\ GenerateStart(RenderArg)
  \/ mode \in {"idle", "generateFrontmatter"} /\ GenerateStartFrontmatter(RenderArg)
  \/ GenerateStep
  \/ GenerateStepFrontmatter
  \/ GenerateDone
  \/ RunAgain

SpecRerun == InitRerun /\ [][NextRerun]_vars

\* C14: Generate is idempotent. After any run both documents are what the
\* descriptor alone determines (nothing of what the files held before is
\* left), and once a run has written them no later run on the unchanged
\* descriptor changes the content of either.
C14_Idempotent ==
  [][/\ RulePath \in Writes' =>
          /\ \E L \in {LinesOf(fsFiles'[RulePath].text)} : IsRuleDoc(L)
          /\ \E L \in {LinesOf(fsFiles'[SkillMdPath].text)} :
               IF mode' = "generate" THEN IsSkillMdBody(L, 1)
               ELSE HasHeader(L) /\ IsSkillMdBody(L, 6)
     /\ RulePath \in Writes =>
          /\ fsFiles'[SkillMdPath] = fsFiles[SkillMdPath]
          /\ fsFiles'[RulePath] = fsFiles[RulePath]]_vars

C14_Witness ==
  /\ Exited /\ exitCode = 0 /\ mode = "generate"
  /\ Len(Reads) = MaxRuns
  /\ Cardinality({i \in 1..Len(trace) : trace[i] = [op |-> "write", path |-> SkillMdPath]}) = MaxRuns
  /\ NotesGiven /\ NonGoalsGiven
  /\ fsFiles[SkillMdPath] # OldText /\ fsFiles[RulePath] # OldText

----------------------------------------------------------------------------
(* Specification of one run of a script on a tree of two unit directories,
   skills/a and skills/a-b, over more file contents: descriptors that make a
   renderer raise, and a file named SKILL.md that holds JSON *)

\* a descriptor that passes validation and whose triggers is a number
BadTriggersDescriptor ==
  JsonFile(JObj(<<"id", "title", "version", "description", "triggers">>,
                ("id" :> SampleId) @@ ("title" :> SampleText) @@ ("version" :> GoodVersion)
                @@ ("description" :> SampleText) @@ ("triggers" :> JNum(<<"1">>))))

FramePool == DescriptorPool \cup {BadTriggersDescriptor}
FrameDirs == {skillsDir \o <<N_a>>, skillsDir \o <<N_a_b>>}
FrameMdPath == skillsDir \o <<N_a, SKILL_MD>>
FrameArgs == Args \cup {RelArg(<<SKILLS, N_a, SKILL_MD>>)}

InitFrame ==
  /\ fsDirs = {<<>>, repoRoot, skillsDir} \cup FrameDirs
  /\ \E S \in SUBSET FrameDirs : \E c \in [S -> FramePool] :
     \E md \in {Absent, OldText, ValidDescriptor} :
       fsFiles = [p \in {PathJoin(d, SKILL_JSON) : d \in S} \cup {ReadmePath}
                         \cup (IF md = Absent THEN {} ELSE {FrameMdPath}) |->
                    IF p = ReadmePath THEN NotJson
                    ELSE IF p = FrameMdPath THEN md
                    ELSE c[SubSeq(p, 1, Len(p) - 1)]]
  /\ mode = "idle"
  /\ arg = JUndefined
  /\ pc = "idle"
  /\ paths = <<>>
  /\ idx = 0
  /\ failed = FALSE
  /\ exitCode = -1
  /\ stderr = <<>>
  /\ stdout = <<>>
  /\ walked = {}
  /\ trace = <<>>
  /\ lastCall = "none"

NextFrame ==
  \/ \E a \in FrameArgs : ValidateStart(a)
  \/ ValidateStep
  \/ ValidateExit
  \/ \E a \in FrameArgs : GenerateStart(a)
  \/ \E a \in FrameArgs : GenerateStartFrontmatter(a)
  \/ GenerateStep
  \/ GenerateStepFrontmatter
  \/ GenerateDone

SpecFrame == InitFrame /\ [][NextFrame]_vars

----------------------------------------------------------------------------
(* Claims about the effects and the end of a Generate run, checked under
   SpecFrame *)

Generating == mode \in {"generate", "generateFrontmatter"}

\* the file p is created, removed or given another content by the step
Changed(p) ==
  \/ (p \in DOMAIN fsFiles) # (p \in DOMAIN fsFiles')
  \/ p \in DOMAIN fsFiles /\ p \in DOMAIN fsFiles' /\ fsFiles'[p] # fsFiles[p]

\* the two documents of the descriptor q, in the directory that holds q
SiblingDocs(q) ==
  {SubSeq(q, 1, Len(q) - 1) \o <<SKILL_MD>>, SubSeq(q, 1, Len(q) - 1) \o <<CURSOR_RULE_MD>>}

\* the texts the renderers give for the descriptor in file q
RenderingsOf(q) ==
  {TextFile(generateSkillMd(fsFiles[q].value).text),
   TextFile(generateSkillMdFrontmatter(fsFiles[q].value).text),
   TextFile(generateCursorRuleMd(fsFiles[q].value).text)}

\* a step changes no directory and removes no file, and a file it creates or
\* changes is SKILL.md or cursor.rule.md next to the item that Generate is
\* processing, holding a rendering of that item and nothing else
OnlySiblingDocsWritten ==
  /\ fsDirs' = fsDirs
  /\ DOMAIN fsFiles \subseteq DOMAIN fsFiles'
  /\ \A p \in DOMAIN fsFiles' :
       Changed(p) =>
         /\ Generating /\ pc = "loop" /\ idx < Len(paths)
         /\ p \in SiblingDocs(paths[idx + 1])
         /\ fsFiles'[p] \in RenderingsOf(paths[idx + 1])

\* C16 (as claimed): the only files a run creates or changes are SKILL.md and
\* cursor.rule.md in the directory of an item of the working set of Generate,
\* each replaced in full; no item of the working set (no descriptor file) and
\* no other file is changed by a Generate or Validate run.
C16_FrameEffect ==
  [][/\ OnlySiblingDocsWritten
     /\ \A i \in 1..Len(paths) : ~Changed(paths[i])]_vars

\* C16 (amended): the same, but the descriptor file itself is left unchanged
\* only when it is not named SKILL.md or cursor.rule.md: a file of that name
\* given as the explicit path is replaced by its own rendering.
C16_FrameEffectNamedDescriptor ==
  [][/\ OnlySiblingDocsWritten
     /\ \A i \in 1..Len(paths) :
          paths[i][Len(paths[i])] \notin {SKILL_MD, CURSOR_RULE_MD} => ~Changed(paths[i])]_vars

C16_Witness ==
  /\ Exited /\ exitCode = 0 /\ mode = "generate" /\ arg = JUndefined
  /\ Len(paths) = 2
  /\ Writes = SiblingDocs(paths[1]) \cup SiblingDocs(paths[2])
  /\ fsFiles[FrameMdPath] \notin {OldText, ValidDescriptor}
  /\ fsFiles[paths[1]] = NoTitleDescriptor /\ fsFiles[paths[2]] = ValidDescriptor
  /\ fsFiles[ReadmePath] = NotJson

\* rendering the file at p raises: its triggers cannot be iterated
RenderRaisesAt(p) ==
  /\ p \in DOMAIN fsFiles /\ fsFiles[p].kind = "json" /\ fsFiles[p].value.t = "obj"
  /\ "triggers" \in DOMAIN fsFiles[p].value.fields
  /\ fsFiles[p].value.fields["triggers"].t = "num"

\* p is not a file (a directory given as the explicit path)
IsDirectoryAt(p) == p \notin DOMAIN fsFiles

DonePrinted == \E n \in 1..Len(stdout) : stdout[n].kind = "Done"

\* C17: Generate ends with 1 and has written nothing when the working set is
\* empty, and with 0 (after 'Done.') when every item was rendered; an item
\* that cannot be read, parsed or rendered ends the run at that item: the
\* loop does not get past it, no document is written for it or an item after it,
\* 'Done.' is not printed and the status is not 0 (an item is judged by what
\* its file holds when it is read: the run has not written to it).
C17_GenerateExit ==
  Generating =>
    /\ (Exited /\ Len(paths) = 0) => (exitCode = 1 /\ trace = <<>> /\ ~DonePrinted)
    /\ (Exited /\ Len(paths) > 0 /\ idx = Len(paths)) =>
         (exitCode = 0 /\ DonePrinted /\ lastCall = "done")
    /\ exitCode = 0 => (idx = Len(paths) /\ Len(paths) > 0)
    /\ \A i \in 1..Len(paths) :
         (/\ paths[i] \notin Writes
          /\ IsDirectoryAt(paths[i]) \/ NotJsonAt(paths[i]) \/ RenderRaisesAt(paths[i])) =>
           /\ idx < i
           /\ \A j \in i..Len(paths) : SiblingDocs(paths[j]) \cap Writes = {}
           /\ ~DonePrinted
           /\ Exited => (exitCode # 0 /\ lastCall = "threw")

C17_Witness ==
  /\ Exited /\ mode = "generate" /\ arg = JUndefined
  /\ Len(paths) = 2
  /\ fsFiles[paths[1]] = BadTriggersDescriptor
  /\ fsFiles[paths[2]] = ValidDescriptor
  /\ exitCode = 1 /\ Len(Reads) = 1 /\ Writes = {}

----------------------------------------------------------------------------
(* installSkills.js (src/scripts/installSkills.js, lines 1-277): strings,
   paths and the command line *)

\* str.startsWith(pre), str.endsWith(suf)
StrStartsWith(str, pre) == Len(str) >= Len(pre) /\ SubSeq(str, 1, Len(pre)) = pre
StrEndsWith(str, suf) == Len(str) >= Len(suf) /\ SubSeq(str, Len(str) - Len(suf) + 1, Len(str)) = suf

\* the position of the first c of str at or after i (Len(str) + 1 when none)
RECURSIVE NextSep(_, _, _)
NextSep(str, c, i) == IF i > Len(str) \/ str[i] = c THEN i ELSE NextSep(str, c, i + 1)

\* str.split(c) for a one-character separator, from position i on
RECURSIVE SplitOn(_, _, _)
SplitOn(str, c, i) ==
  LET j == NextSep(str, c, i)
  IN  IF j > Len(str) THEN <<SubSeq(str, i, j - 1)>>
      ELSE <<SubSeq(str, i, j - 1)>> \o SplitOn(str, c, j + 1)

DOT == <<".">>
DOTDOT == <<".", ".">>

\* path normalisation: '', '.' dropped, '..' removes the component before it
RECURSIVE Normalize(_, _)
Normalize(done, rest) ==
  IF rest = <<>> THEN done
  ELSE IF Head(rest) \in {<<>>, DOT} THEN Normalize(done, Tail(rest))
  ELSE IF Head(rest) = DOTDOT
    THEN Normalize(IF done = <<>> THEN <<>> ELSE SubSeq(done, 1, Len(done) - 1), Tail(rest))
  ELSE Normalize(Append(done, Head(rest)), Tail(rest))

\* path.isAbsolute(str)
IsAbsolute(str) == StrStartsWith(str, <<"/">>)

\* path.resolve(base, str): the components of the absolute path
PathResolve(base, str) ==
  Normalize(IF IsAbsolute(str) THEN <<>> ELSE base, SplitOn(str, "/", 1))

\* process.cwd(): npm runs the script in the repository
cwd == repoRoot

\* path.relative(from, to), both absolute: up from `from` to the common
\* ancestor, then down to `to`
RECURSIVE CommonLen(_, _)
CommonLen(a, b) ==
  IF a # <<>> /\ b # <<>> /\ Head(a) = Head(b) THEN 1 + CommonLen(Tail(a), Tail(b)) ELSE 0
PathRelative(from, to) ==
  LET n == CommonLen(from, to)
  IN  [i \in 1..(Len(from) - n) |-> DOTDOT] \o SubSeq(to, n + 1, Len(to))

\* names of the trees
P == <<"p">>
DOCS == <<"d", "o", "c", "s">>
NOPE == <<"n", "o", "p", "e">>
SUB == <<"s", "u", "b">>
X_MD == <<"x", ".", "m", "d">>
CLAUDE_MD == <<"C", "L", "A", "U", "D", "E", ".", "m", "d">>
DOT_CURSOR == <<".", "c", "u", "r", "s", "o", "r">>
DOT_CLAUDE == <<".", "c", "l", "a", "u", "d", "e">>
CURSOR == <<"c", "u", "r", "s", "o", "r">>
CLAUDE == <<"c", "l", "a", "u", "d", "e">>
REFERENCE == <<"-", "r", "e", "f", "e", "r", "e", "n", "c", "e">>

\* the words of the command line
FLAG_LINK == <<"-", "-", "l", "i", "n", "k">>
FLAG_L == <<"-", "l">>
FLAG_INCLUDE_CLAUDE == <<"-", "-", "i", "n", "c", "l", "u", "d", "e", "-", "c", "l", "a", "u", "d", "e">>
TARGET_EQ == <<"-", "-", "t", "a", "r", "g", "e", "t", "=">>

\* args.includes(word)
Includes(args, word) == \E i \in 1..Len(args) : args[i] = word

\* args.find((a) => a.startsWith("--target=")), or undefined
targetArg(args) ==
  LET found == SelectSeq(args, LAMBDA a : StrStartsWith(a, TARGET_EQ))
  IN  IF found = <<>> THEN JUndefined ELSE JStr(Head(found))

\* targetArg ? targetArg.split("=")[1] : "cursor"
target(args) ==
  IF targetArg(args) = JUndefined THEN CURSOR
  ELSE SplitOn(targetArg(args).s, "=", 1)[2]

\* variant: -l is not filtered out
positionalKeepsL(args) == SelectSeq(args, LAMBDA a : ~StrStartsWith(a, <<"-", "-">>))

\* args.filter((a) => !a.startsWith("--") && a !== "-l")
positional(args) == SelectSeq(args, LAMBDA a : ~StrStartsWith(a, <<"-", "-">>) /\ a # FLAG_L)

\* positional[0]
destination(args) == IF Len(positional(args)) >= 1 THEN JStr(positional(args)[1]) ELSE JUndefined

\* positional[1] || "skills"
sourcePath(args) ==
  IF Len(positional(args)) >= 2 /\ positional(args)[2] # <<>> THEN positional(args)[2] ELSE SKILLS

\* installForCursor / installForClaude: const skillsDir = ..., for the tool
\* "cursor" or "claude"
skillsDirFor(tool, dest) ==
  LET destResolved == PathResolve(cwd, dest)
      str == PathString(destResolved)
  IN  IF StrEndsWith(str, DOT \o tool \o <<"/">> \o SKILLS) \/ StrEndsWith(str, SKILLS)
      THEN destResolved
      ELSE IF StrEndsWith(str, DOT \o tool) THEN Append(destResolved, SKILLS)
      ELSE destResolved \o <<DOT \o tool, SKILLS>>

----------------------------------------------------------------------------
(* The file system calls of installSkills.js, on a tree fs given by its
   directories and its files; a symbolic link is a file of kind "link" whose
   target is a relative path *)

LinkFile(targetPath) == [kind |-> "link", target |-> targetPath]
FS(d, f) == [dirs |-> d, files |-> f]
Ok(fs) == [threw |-> FALSE, fs |-> fs]
Threw(fs) == [threw |-> TRUE, fs |-> fs]

\* links followed while a path is resolved, before the call gives up (ELOOP)
MaxHops == 3

IsLink(fs, p) == p \in DOMAIN fs.files /\ fs.files[p].kind = "link"
Parent(p) == IF p = <<>> THEN <<>> ELSE SubSeq(p, 1, Len(p) - 1)

\* the path with every link on the way followed; a path that is still a link
\* is broken
RECURSIVE Canon(_, _, _)
Canon(fs, p, hops) ==
  LET ks == {k \in 1..Len(p) : IsLink(fs, SubSeq(p, 1, k))}
  IN  IF ks = {} \/ hops = 0 THEN p
      ELSE LET k == CHOOSE k \in ks : \A j \in ks : k <= j
           IN  Canon(fs, Normalize(SubSeq(p, 1, k - 1), fs.files[SubSeq(p, 1, k)].target)
                           \o SubSeq(p, k + 1, Len(p)), hops - 1)
Real(fs, p) == Canon(fs, p, MaxHops)

\* the path with the links of its directory followed, not the last one
LPath(fs, p) == IF p = <<>> THEN p ELSE Append(Real(fs, Parent(p)), p[Len(p)])

\* fs.existsSync(p), fs.statSync(p).isDirectory(): links followed
existsSync(fs, p) ==
  \E c \in {Real(fs, p)} : c \in fs.dirs \/ (c \in DOMAIN fs.files /\ ~IsLink(fs, c))
IsDirectory(fs, p) == Real(fs, p) \in fs.dirs

\* fs.lstatSync(p): the entry itself
lexists(fs, p) == \E c \in {LPath(fs, p)} : c \in fs.dirs \/ c \in DOMAIN fs.files
lstatIsDirectory(fs, p) == LPath(fs, p) \in fs.dirs

\* variant: without `recursive`, the call raises when the directory of p does
\* not exist or p exists
mkdirSyncPlain(fs, p) ==
  IF p = <<>> \/ lexists(fs, p) \/ ~IsDirectory(fs, Parent(p)) THEN Threw(fs)
  ELSE Ok(FS(fs.dirs \cup {LPath(fs, p)}, fs.files))

\* fs.mkdirSync(p, { recursive: true }): raises when a file or a broken link
\* is on the way
mkdirSync(fs, p) ==
  LET pre == [k \in 1..Len(p) |-> SubSeq(p, 1, k)]
  IN  IF \E k \in 1..Len(p) : lexists(fs, pre[k]) /\ ~IsDirectory(fs, pre[k])
      THEN Threw(fs)
      ELSE Ok(FS(fs.dirs \cup {Real(fs, pre[k]) : k \in 1..Len(p)}, fs.files))

\* fs.copyFileSync(src, dest): dest is replaced in full; raises when src is
\* not a file, dest is a directory or the directory of dest does not exist;
\* copying a file onto itself changes nothing
copyFileSync(fs, src, dest) ==
  LET s == Real(fs, src)
      d == Real(fs, dest)
  IN  IF s \notin DOMAIN fs.files \/ IsLink(fs, s) THEN Threw(fs)
      ELSE IF d \in fs.dirs \/ IsLink(fs, d) \/ d = <<>> \/ Parent(d) \notin fs.dirs THEN Threw(fs)
      ELSE IF s = d THEN Ok(fs)
      ELSE Ok(FS(fs.dirs, (d :> fs.files[s]) @@ fs.files))

IsUnder(q, p) == Len(q) >= Len(p) /\ SubSeq(q, 1, Len(p)) = p

\* fs.rmSync(p, { recursive: true }): the entry and all below it
rmSync(fs, p) ==
  LET l == LPath(fs, p)
  IN  IF ~lexists(fs, p) THEN Threw(fs)
      ELSE Ok(FS({q \in fs.dirs : ~IsUnder(q, l)},
                 [q \in {q \in DOMAIN fs.files : ~IsUnder(q, l)} |-> fs.files[q]]))

\* fs.unlinkSync(p): removes a file or a link, raises on a directory
unlinkSync(fs, p) ==
  LET l == LPath(fs, p)
  IN  IF l \notin DOMAIN fs.files THEN Threw(fs)
      ELSE Ok(FS(fs.dirs, [q \in DOMAIN fs.files \ {l} |-> fs.files[q]]))

\* fs.symlinkSync(target, p): raises when p exists (a broken link included)
\* or its directory does not
symlinkSync(fs, targetPath, p) ==
  LET l == LPath(fs, p)
  IN  IF lexists(fs, p) \/ p = <<>> \/ Parent(l) \notin fs.dirs THEN Threw(fs)
      ELSE Ok(FS(fs.dirs, (l :> LinkFile(targetPath)) @@ fs.files))

\* a set as a sequence
RECURSIVE SetToSeq(_)
SetToSeq(S) == IF S = {} THEN <<>> ELSE LET x == CHOOSE x \in S : TRUE IN <<x>> \o SetToSeq(S \ {x})

\* fs.readdirSync(dir, { withFileTypes: true }): the entries of dir
readdirSync(fs, dir) ==
  LET c == Real(fs, dir)
  IN  SetToSeq({q \in fs.dirs \cup DOMAIN fs.files : q # <<>> /\ Parent(q) = c})

\* variant: nothing is left out of a copy
skipFilesNone == {}

\* const skipFiles = ['skill.json', 'cursor.rule.md']
skipFiles == {SKILL_JSON, CURSOR_RULE_MD}

\* variant: a link is made without looking at what is at dest
linkOverBlind(fs, src, dest) == symlinkSync(fs, PathRelative(Parent(dest), src), dest)

\* copyRecursive(src, dest, true): what is at dest is removed, then the link
\* to src is made
linkOver(fs, src, dest) ==
  CHOOSE out \in
    {IF gone.threw THEN gone ELSE symlinkSync(gone.fs, PathRelative(Parent(dest), src), dest) :
       gone \in {IF existsSync(fs, dest)
                 THEN IF lstatIsDirectory(fs, dest) THEN rmSync(fs, dest) ELSE unlinkSync(fs, dest)
                 ELSE Ok(fs)}} : TRUE

\* copyRecursive(src, dest, false): its loop over the entries, one entry of
\* the loop, and the whole
RECURSIVE copyTree(_, _, _), copyEntries(_, _, _, _), copyEntry(_, _, _, _)
copyEntries(fs, entries, src, dest) ==
  IF entries = <<>> THEN Ok(fs)
  ELSE CHOOSE out \in
         {IF r.threw THEN r ELSE copyEntries(r.fs, Tail(entries), src, dest) :
            r \in {copyEntry(fs, Head(entries), src, dest)}} : TRUE
copyEntry(fs, e, src, dest) ==
  LET name == e[Len(e)]
  IN  IF name \in skipFiles THEN Ok(fs)
      ELSE IF e \in fs.dirs THEN copyTree(fs, PathJoin(src, name), PathJoin(dest, name))
      ELSE copyFileSync(fs, PathJoin(src, name), PathJoin(dest, name))
copyTree(fs, src, dest) ==
  IF ~lexists(fs, src) THEN Threw(fs)
  ELSE IF lstatIsDirectory(fs, src)
  THEN CHOOSE out \in
         {IF made.threw THEN made
          ELSE copyEntries(made.fs, readdirSync(made.fs, src), src, dest) :
            made \in {mkdirSync(fs, dest)}} : TRUE
  ELSE copyFileSync(fs, src, dest)

\* copyRecursive(src, dest, link)
copyRecursive(fs, src, dest, link) ==
  IF link THEN linkOver(fs, src, dest) ELSE copyTree(fs, src, dest)

----------------------------------------------------------------------------
(* installSkills.js: findSkills, main, installForCursor / installForClaude *)

JPath(p) == [t |-> "path", p |-> p]

\* the directories among the entries of dir, those of listing first and in
\* its order
SubDirsOf(fs, dir, listing) ==
  LET kids == {q \in fs.dirs : q # <<>> /\ Parent(q) = dir}
      listed == SelectSeq(listing, LAMBDA n : PathJoin(dir, n) \in kids)
  IN  [i \in 1..Len(listed) |-> PathJoin(dir, listed[i])]
        \o SetToSeq({q \in kids : \A i \in 1..Len(listing) : q[Len(q)] # listing[i]})

\* walk(dir) of findSkills: the unit directories found, in order; a directory
\* with skill.json is a unit and is not searched further
RECURSIVE walkSkills(_, _, _), walkSkillsEach(_, _, _)
walkSkills(fs, dir, listing) ==
  IF existsSync(fs, PathJoin(dir, SKILL_JSON)) THEN <<dir>>
  ELSE walkSkillsEach(fs, SubDirsOf(fs, dir, listing), listing)
walkSkillsEach(fs, dirs, listing) ==
  IF dirs = <<>> THEN <<>>
  ELSE walkSkills(fs, Head(dirs), listing) \o walkSkillsEach(fs, Tail(dirs), listing)

\* skills.push({ dir, slug, skillJsonPath, cursorRulePath, skillMdPath })
SkillOf(fs, dir) ==
  [dir |-> dir,
   slug |-> IF dir = <<>> THEN <<>> ELSE dir[Len(dir)],
   skillJsonPath |-> PathJoin(dir, SKILL_JSON),
   cursorRulePath |-> IF existsSync(fs, PathJoin(dir, CURSOR_RULE_MD))
                      THEN JPath(PathJoin(dir, CURSOR_RULE_MD)) ELSE JNull,
   skillMdPath |-> IF existsSync(fs, PathJoin(dir, SKILL_MD))
                   THEN JPath(PathJoin(dir, SKILL_MD)) ELSE JNull]

\* path.isAbsolute(sourcePath) ? sourcePath : path.resolve(repoRoot, sourcePath)
sourceResolved(src) == PathResolve(repoRoot, src)

\* findSkills(sourcePath): "Source not found" and exit when the path does not
\* exist; readdirSync raises on a path that is not a directory
findSkills(fs, src, listing) ==
  LET resolved == sourceResolved(src)
  IN  IF ~existsSync(fs, resolved) THEN [exit |-> TRUE, threw |-> FALSE, skills |-> <<>>]
      ELSE IF ~IsDirectory(fs, resolved) THEN [exit |-> FALSE, threw |-> TRUE, skills |-> <<>>]
      ELSE LET found == walkSkills(fs, Real(fs, resolved), listing)
           IN  [exit |-> FALSE, threw |-> FALSE,
                skills |-> [i \in 1..Len(found) |-> SkillOf(fs, found[i])]]

\* the command line of the running script
Argv == arg.args
Link == Includes(Argv, FLAG_LINK) \/ Includes(Argv, FLAG_L)
IncludeClaude == Includes(Argv, FLAG_INCLUDE_CLAUDE)
SkillsDirNow == skillsDirFor(target(Argv), destination(Argv).s)

InstallMsg(kind) == [path |-> <<>>, msg |-> [kind |-> kind]]

\* main() up to the loop of installForCursor / installForClaude: the command
\* line is read, the units are found, the skills directory is resolved and
\* made
InstallStart(args, listing) ==
  /\ pc = "idle"
  /\ mode' = "install"
  /\ arg' = [t |-> "argv", args |-> args]
  /\ failed' = FALSE
  /\ UNCHANGED <<idx, walked, trace, lastCall>>
  /\ IF target(args) \notin {CURSOR, CLAUDE}
     THEN /\ stderr' = Append(stderr, InstallMsg("target"))
          /\ exitCode' = 1 /\ pc' = "exited"
          /\ UNCHANGED <<fsDirs, fsFiles, paths, stdout>>
     ELSE IF destination(args) = JUndefined \/ destination(args).s = <<>>
     THEN /\ stderr' = Append(stderr, InstallMsg("usage"))
          /\ exitCode' = 1 /\ pc' = "exited"
          /\ UNCHANGED <<fsDirs, fsFiles, paths, stdout>>
     ELSE \E found \in {findSkills(FS(fsDirs, fsFiles), sourcePath(args), listing)} :
       IF found.exit \/ found.threw \/ found.skills = <<>>
       THEN /\ stderr' = Append(stderr, InstallMsg(IF found.exit THEN "sourceNotFound"
                                                   ELSE IF found.threw THEN "uncaught"
                                                   ELSE "noSkills"))
            /\ exitCode' = 1 /\ pc' = "exited"
            /\ UNCHANGED <<fsDirs, fsFiles, paths, stdout>>
       ELSE \E dir \in {skillsDirFor(target(args), destination(args).s)} :
            \E made \in {IF existsSync(FS(fsDirs, fsFiles), dir) THEN Ok(FS(fsDirs, fsFiles))
                         ELSE mkdirSync(FS(fsDirs, fsFiles), dir)} :
              /\ paths' = found.skills
              /\ fsDirs' = made.fs.dirs
              /\ fsFiles' = made.fs.files
              /\ IF made.threw
                 THEN /\ stderr' = Append(stderr, InstallMsg("uncaught"))
                      /\ exitCode' = 1 /\ pc' = "exited"
                      /\ UNCHANGED stdout
                 ELSE /\ stdout' = Append(stdout, [kind |-> "Installing", dir |-> dir,
                                                   tool |-> target(args), n |-> Len(found.skills),
                                                   link |-> Includes(args, FLAG_LINK) \/ Includes(args, FLAG_L)])
                      /\ pc' = "loop"
                      /\ UNCHANGED <<stderr, exitCode>>

\* variant: a unit without SKILL.md is installed like any other
SkipsNever(skill) == FALSE

\* if (!skillMdPath) { console.warn(...); continue; }
Skips(skill) == skill.skillMdPath = JNull

\* one turn of `for (const { dir, slug, skillMdPath } of skills)`
InstallStep ==
  /\ mode = "install" /\ pc = "loop"
  /\ idx < Len(paths)
  /\ \E skill \in {paths[idx + 1]} : \E destPath \in {PathJoin(SkillsDirNow, skill.slug)} :
       IF Skips(skill)
       THEN /\ stderr' = Append(stderr, [path |-> skill.dir, msg |-> [kind |-> "skipping"]])
            /\ trace' = Append(trace, [op |-> "skip", path |-> destPath])
            /\ idx' = idx + 1
            /\ lastCall' = "skipped"
            /\ UNCHANGED <<fsDirs, fsFiles, stdout, exitCode, pc>>
       ELSE \E r \in {copyRecursive(FS(fsDirs, fsFiles), skill.dir, destPath, Link)} :
            /\ fsDirs' = r.fs.dirs
            /\ fsFiles' = r.fs.files
            /\ trace' = Append(trace, [op |-> IF Link THEN "link" ELSE "copy", path |-> destPath])
            /\ IF r.threw
               THEN /\ stderr' = Append(stderr, UncaughtMsg(skill.dir))
                    /\ exitCode' = 1 /\ pc' = "exited"
                    /\ lastCall' = "threw"
                    /\ UNCHANGED <<idx, stdout>>
               ELSE /\ stdout' = Append(stdout, [kind |-> "installed", dir |-> skill.dir])
                    /\ idx' = idx + 1
                    /\ lastCall' = "done"
                    /\ UNCHANGED <<stderr, exitCode, pc>>
  /\ UNCHANGED <<mode, arg, paths, failed, walked>>

\* if (includeClaude) { ... }: CLAUDE.md of the source becomes
\* <groupName>-reference/SKILL.md of the skills directory
installReference(fs, dir, src, link) ==
  LET claudePath == PathJoin(src, CLAUDE_MD)
      groupName == IF src = <<>> THEN <<>> ELSE src[Len(src)]
      claudeSkillDir == PathJoin(dir, groupName \o REFERENCE)
      claudeDest == PathJoin(claudeSkillDir, SKILL_MD)
  IN  IF ~existsSync(fs, claudePath) THEN [threw |-> FALSE, fs |-> fs, done |-> FALSE]
      ELSE CHOOSE out \in
        {IF made.threw THEN [threw |-> TRUE, fs |-> made.fs, done |-> FALSE]
         ELSE IF link
         THEN CHOOSE o \in
                {IF gone.threw THEN [threw |-> TRUE, fs |-> gone.fs, done |-> FALSE]
                 ELSE CHOOSE o2 \in
                        {[threw |-> l.threw, fs |-> l.fs, done |-> ~l.threw] :
                           l \in {symlinkSync(gone.fs, PathRelative(claudeSkillDir, claudePath), claudeDest)}} : TRUE :
                   gone \in {IF existsSync(made.fs, claudeDest) THEN unlinkSync(made.fs, claudeDest)
                             ELSE Ok(made.fs)}} : TRUE
         ELSE CHOOSE o \in
                {[threw |-> c.threw, fs |-> c.fs, done |-> ~c.threw] :
                   c \in {copyFileSync(made.fs, claudePath, claudeDest)}} : TRUE :
           made \in {IF existsSync(fs, claudeSkillDir) THEN Ok(fs) ELSE mkdirSync(fs, claudeSkillDir)}} : TRUE

\* the end of installForCursor / installForClaude and of main: the reference
\* document when asked for, then console.log("Done."), status 0
InstallDone ==
  /\ mode = "install" /\ pc = "loop"
  /\ idx = Len(paths)
  /\ \E r \in {IF IncludeClaude
               THEN installReference(FS(fsDirs, fsFiles), SkillsDirNow,
                                     sourceResolved(sourcePath(Argv)), Link)
               ELSE [threw |-> FALSE, fs |-> FS(fsDirs, fsFiles), done |-> FALSE]} :
       /\ fsDirs' = r.fs.dirs
       /\ fsFiles' = r.fs.files
       /\ IF r.threw
          THEN /\ stderr' = Append(stderr, InstallMsg("uncaught"))
               /\ exitCode' = 1
               /\ UNCHANGED stdout
          ELSE /\ stdout' = stdout \o (IF r.done THEN <<[kind |-> "reference"]>> ELSE <<>>)
                                   \o <<[kind |-> "Done"]>>
               /\ exitCode' = 0
               /\ UNCHANGED stderr
  /\ pc' = "exited"
  /\ UNCHANGED <<mode, arg, paths, idx, failed, walked, trace, lastCall>>

----------------------------------------------------------------------------
(* installSkills.js, the rule-file version (src/scripts/installSkills.js,
   lines 279-549): links by default, and for Cursor each unit's cursor.rule.md
   becomes <slug>.mdc of the rules directory *)

RULES == <<"r", "u", "l", "e", "s">>
DOT_MDC == <<".", "m", "d", "c">>
CLAUDE_MDC == <<"-", "c", "l", "a", "u", "d", "e", ".", "m", "d", "c">>
FLAG_COPY == <<"-", "-", "c", "o", "p", "y">>
FLAG_C == <<"-", "c">>

\* const copy = args.includes("--copy") || args.includes("-c"); link = !copy
linkRules(args) == ~(Includes(args, FLAG_COPY) \/ Includes(args, FLAG_C))

\* args.filter((a) => !a.startsWith("--") && a !== "-c")
positionalRules(args) == SelectSeq(args, LAMBDA a : ~StrStartsWith(a, <<"-", "-">>) /\ a # FLAG_C)
destinationRules(args) ==
  IF Len(positionalRules(args)) >= 1 THEN JStr(positionalRules(args)[1]) ELSE JUndefined
sourcePathRules(args) ==
  IF Len(positionalRules(args)) >= 2 /\ positionalRules(args)[2] # <<>>
  THEN positionalRules(args)[2] ELSE SKILLS

\* installForCursor: const rulesDir = ...
rulesDirFor(dest) ==
  LET destResolved == PathResolve(cwd, dest)
      str == PathString(destResolved)
  IN  IF StrEndsWith(str, DOT_CURSOR \o <<"/">> \o RULES) \/ StrEndsWith(str, RULES)
      THEN destResolved
      ELSE destResolved \o <<DOT_CURSOR, RULES>>

RulesDirNow == rulesDirFor(destinationRules(Argv).s)

\* the two mkdirSync calls of installForCursor, each after existsSync
makeRulesDir(fs, dir) ==
  CHOOSE out \in
    {IF up.threw \/ existsSync(up.fs, dir) THEN up ELSE mkdirSync(up.fs, dir) :
       up \in {IF existsSync(fs, Parent(dir)) THEN Ok(fs) ELSE mkdirSync(fs, Parent(dir))}} : TRUE

\* main() up to the loop of installForCursor, for the tool cursor
InstallRulesStart(args, listing) ==
  /\ pc = "idle"
  /\ target(args) # CLAUDE
  /\ mode' = "installRules"
  /\ arg' = [t |-> "argv", args |-> args]
  /\ failed' = FALSE
  /\ UNCHANGED <<idx, walked, trace, lastCall>>
  /\ IF target(args) # CURSOR
     THEN /\ stderr' = Append(stderr, InstallMsg("target"))
          /\ exitCode' = 1 /\ pc' = "exited"
          /\ UNCHANGED <<fsDirs, fsFiles, paths, stdout>>
     ELSE IF destinationRules(args) = JUndefined \/ destinationRules(args).s = <<>>
     THEN /\ stderr' = Append(stderr, InstallMsg("usage"))
          /\ exitCode' = 1 /\ pc' = "exited"
          /\ UNCHANGED <<fsDirs, fsFiles, paths, stdout>>
     ELSE \E found \in {findSkills(FS(fsDirs, fsFiles), sourcePathRules(args), listing)} :
       IF found.exit \/ found.threw \/ found.skills = <<>>
       THEN /\ stderr' = Append(stderr, InstallMsg(IF found.exit THEN "sourceNotFound"
                                                   ELSE IF found.threw THEN "uncaught"
                                                   ELSE "noSkills"))
            /\ exitCode' = 1 /\ pc' = "exited"
            /\ UNCHANGED <<fsDirs, fsFiles, paths, stdout>>
       ELSE \E dir \in {rulesDirFor(destinationRules(args).s)} :
            \E made \in {makeRulesDir(FS(fsDirs, fsFiles), dir)} :
              /\ paths' = found.skills
              /\ fsDirs' = made.fs.dirs
              /\ fsFiles' = made.fs.files
              /\ IF made.threw
                 THEN /\ stderr' = Append(stderr, InstallMsg("uncaught"))
                      /\ exitCode' = 1 /\ pc' = "exited"
                      /\ UNCHANGED stdout
                 ELSE /\ stdout' = Append(stdout, [kind |-> "Installing", dir |-> dir,
                                                   tool |-> CURSOR, n |-> Len(found.skills),
                                                   link |-> linkRules(args)])
                      /\ pc' = "loop"
                      /\ UNCHANGED <<stderr, exitCode>>

\* if (!cursorRulePath) { console.warn(...); continue; }
SkipsRule(skill) == skill.cursorRulePath = JNull

\* a file src put at dest: a link to it in place of what was there, or a copy
putFile(fs, src, dest, link) ==
  IF link
  THEN CHOOSE out \in
         {IF gone.threw THEN gone ELSE symlinkSync(gone.fs, PathRelative(Parent(dest), src), dest) :
            gone \in {IF existsSync(fs, dest) THEN unlinkSync(fs, dest) ELSE Ok(fs)}} : TRUE
  ELSE copyFileSync(fs, src, dest)

\* one turn of `for (const { cursorRulePath, slug } of skills)`
InstallRulesStep ==
  /\ mode = "installRules" /\ pc = "loop"
  /\ idx < Len(paths)
  /\ \E skill \in {paths[idx + 1]} : \E destPath \in {PathJoin(RulesDirNow, skill.slug \o DOT_MDC)} :
       IF SkipsRule(skill)
       THEN /\ stderr' = Append(stderr, [path |-> skill.dir, msg |-> [kind |-> "skipping"]])
            /\ trace' = Append(trace, [op |-> "skip", path |-> destPath])
            /\ idx' = idx + 1
            /\ lastCall' = "skipped"
            /\ UNCHANGED <<fsDirs, fsFiles, stdout, exitCode, pc>>
       ELSE \E r \in {putFile(FS(fsDirs, fsFiles), skill.cursorRulePath.p, destPath, linkRules(Argv))} :
            /\ fsDirs' = r.fs.dirs
            /\ fsFiles' = r.fs.files
            /\ trace' = Append(trace, [op |-> IF linkRules(Argv) THEN "link" ELSE "copy",
                                       path |-> destPath])
            /\ IF r.threw
               THEN /\ stderr' = Append(stderr, UncaughtMsg(skill.dir))
                    /\ exitCode' = 1 /\ pc' = "exited"
                    /\ lastCall' = "threw"
                    /\ UNCHANGED <<idx, stdout>>
               ELSE /\ stdout' = Append(stdout, [kind |-> "installed", dir |-> skill.dir])
                    /\ idx' = idx + 1
                    /\ lastCall' = "done"
                    /\ UNCHANGED <<stderr, exitCode, pc>>
  /\ UNCHANGED <<mode, arg, paths, failed, walked>>

\* the end of installForCursor and of main: CLAUDE.md of the source becomes
\* <groupName>-claude.mdc when asked for, then console.log("Done."), status 0
InstallRulesDone ==
  /\ mode = "installRules" /\ pc = "loop"
  /\ idx = Len(paths)
  /\ \E src \in {sourceResolved(sourcePathRules(Argv))} :
     \E given \in {IncludeClaude /\ existsSync(FS(fsDirs, fsFiles), PathJoin(src, CLAUDE_MD))} :
     \E r \in {IF given
               THEN putFile(FS(fsDirs, fsFiles), PathJoin(src, CLAUDE_MD),
                            PathJoin(RulesDirNow, (IF src = <<>> THEN <<>> ELSE src[Len(src)]) \o CLAUDE_MDC),
                            linkRules(Argv))
               ELSE Ok(FS(fsDirs, fsFiles))} :
       /\ fsDirs' = r.fs.dirs
       /\ fsFiles' = r.fs.files
       /\ IF r.threw
          THEN /\ stderr' = Append(stderr, InstallMsg("uncaught"))
               /\ exitCode' = 1
               /\ UNCHANGED stdout
          ELSE /\ stdout' = stdout \o (IF given THEN <<[kind |-> "reference"]>> ELSE <<>>)
                                   \o <<[kind |-> "Done"]>>
               /\ exitCode' = 0
               /\ UNCHANGED stderr
  /\ pc' = "exited"
  /\ UNCHANGED <<mode, arg, paths, idx, failed, walked, trace, lastCall>>

----------------------------------------------------------------------------
(* The installs checked: a source tree of two units, a project directory /p,
   and command lines *)

X_SKILLS == <<"x">> \o SKILLS
OLD_MD == <<"o", "l", "d", ".", "m", "d">>
unitA == skillsDir \o <<N_a>>
unitAB == skillsDir \o <<N_a_b>>
projectDir == <<P>>
cursorSkills == <<P, DOT_CURSOR, SKILLS>>

\* the repository: README.md, docs/ (no unit), skills/CLAUDE.md, the unit
\* skills/a with a rule file and a subdirectory, the unit skills/a-b; each
\* unit with or without its SKILL.md
SourceDirs == {<<>>, repoRoot, repoRoot \o <<DOCS>>, skillsDir, unitA, unitA \o <<SUB>>, unitAB}
SourceFiles(mdA, mdAB) ==
  (ReadmePath :> NotJson)
    @@ (PathJoin(skillsDir, CLAUDE_MD) :> TextFile(<<"C">>))
    @@ (PathJoin(unitA, SKILL_JSON) :> ValidDescriptor)
    @@ (PathJoin(unitA, CURSOR_RULE_MD) :> TextFile(<<"r">>))
    @@ (unitA \o <<SUB, X_MD>> :> TextFile(<<"x">>))
    @@ (PathJoin(unitAB, SKILL_JSON) :> ValidDescriptor)
    @@ (IF mdA THEN PathJoin(unitA, SKILL_MD) :> TextFile(<<"A">>) ELSE <<>>)
    @@ (IF mdAB THEN PathJoin(unitAB, SKILL_MD) :> TextFile(<<"B">>) ELSE <<>>)

\* what is at the destination before the run: no /p, an empty /p, or
\* /p/.cursor/skills with, at a, a file, a directory of an earlier install, a
\* link to the unit or a link to nothing
DestKinds == {"none", "empty", "file", "dir", "link", "broken"}
DestDirs(k) ==
  IF k = "none" THEN {}
  ELSE IF k = "empty" THEN {projectDir}
  ELSE {projectDir, <<P, DOT_CURSOR>>, cursorSkills}
         \cup (IF k = "dir" THEN {PathJoin(cursorSkills, N_a)} ELSE {})
DestFiles(k) ==
  IF k = "file" THEN PathJoin(cursorSkills, N_a) :> TextFile(<<"f">>)
  ELSE IF k = "dir" THEN cursorSkills \o <<N_a, OLD_MD>> :> TextFile(<<"o">>)
  ELSE IF k = "link" THEN PathJoin(cursorSkills, N_a) :> LinkFile(PathRelative(cursorSkills, unitA))
  ELSE IF k = "broken" THEN PathJoin(cursorSkills, N_a) :> LinkFile(<<NOPE>>)
  ELSE <<>>

InitInstall ==
  /\ \E mdA, mdAB \in BOOLEAN : \E k \in DestKinds :
       /\ fsDirs = SourceDirs \cup DestDirs(k)
       /\ fsFiles = SourceFiles(mdA, mdAB) @@ DestFiles(k)
  /\ mode = "idle"
  /\ arg = JUndefined
  /\ pc = "idle"
  /\ paths = <<>>
  /\ idx = 0
  /\ failed = FALSE
  /\ exitCode = -1
  /\ stderr = <<>>
  /\ stdout = <<>>
  /\ walked = {}
  /\ trace = <<>>
  /\ lastCall = "none"

\* destinations: the project root (absolute, and relative to the working
\* directory), tool and skills directories, a directory named skills, a project
\* root whose name ends with "skills", and the empty string
Slash(p) == PathString(p)
Destinations ==
  {Slash(projectDir), JoinStr(<<DOTDOT, P>>, <<"/">>), Slash(<<P, DOT_CURSOR>>),
   Slash(cursorSkills), Slash(<<P, DOT_CLAUDE, SKILLS>>), Slash(<<P, SKILLS>>),
   Slash(<<P, X_SKILLS>>), <<>>}

\* sources: the default, one unit, a directory without units, a path that
\* does not exist, a file
Sources ==
  {JoinStr(<<SKILLS, N_a>>, <<"/">>), DOCS, NOPE, README_MD, Slash(skillsDir)}

Positionals ==
  {<<>>} \cup {<<d>> : d \in Destinations} \cup {<<d, s>> : d \in Destinations, s \in Sources}

\* options: the link flag in its two spellings, --target with a tool or
\* another word, --include-claude
OptionsBefore ==
  {l \o t : l \in {<<>>, <<FLAG_L>>},
            t \in {<<>>, <<TARGET_EQ \o CLAUDE>>, <<TARGET_EQ \o <<"x">>>>}}
OptionsAfter ==
  {l \o c : l \in {<<>>, <<FLAG_LINK>>}, c \in {<<>>, <<FLAG_INCLUDE_CLAUDE>>}}

CommandLines == {b \o p \o a : b \in OptionsBefore, p \in Positionals, a \in OptionsAfter}

\* command lines of the rule-file version: a project root or a rules
\* directory, a source or none, --copy or not, --include-claude or not
RuleCommandLines ==
  {p \o src \o c \o i :
     p \in {<<Slash(projectDir)>>, <<Slash(<<P, DOT_CURSOR, RULES>>)>>, <<>>},
     src \in {<<>>, <<JoinStr(<<SKILLS, N_a>>, <<"/">>)>>},
     c \in {<<>>, <<FLAG_COPY>>},
     i \in {<<>>, <<FLAG_INCLUDE_CLAUDE>>}}

NextInstall ==
  \/ \E args \in CommandLines : \E listing \in Listings : InstallStart(args, listing)
  \/ InstallStep
  \/ InstallDone
  \/ \E args \in RuleCommandLines : \E listing \in Listings : InstallRulesStart(args, listing)
  \/ InstallRulesStep
  \/ InstallRulesDone

SpecInstall == InitInstall /\ [][NextInstall]_vars

----------------------------------------------------------------------------
(* Claims about installSkills.js, checked under SpecInstall *)

Installing == mode = "install"
Resolved == Installing /\ stdout # <<>> /\ stdout[1].kind = "Installing"
Tool == stdout[1].tool
ToolDir == DOT \o Tool
ToolSkills == ToolDir \o <<"/">> \o SKILLS
SkillsDirUsed == stdout[1].dir
DestGiven == PathResolve(cwd, destination(Argv).s)
DestGivenString == PathString(DestGiven)

\* C18: the skills directory follows from the destination by three
\* cases: a destination ending with '.T/skills' is used as is, one ending
\* with '.T' gets 'skills' appended, any other gets '.T/skills' appended; the
\* directory used ends with '.T/skills' and resolving it again returns it.
C18_ThreeWaySuffix ==
  Resolved =>
    /\ StrEndsWith(DestGivenString, ToolSkills) => SkillsDirUsed = DestGiven
    /\ ~StrEndsWith(DestGivenString, ToolSkills) /\ StrEndsWith(DestGivenString, ToolDir)
         => SkillsDirUsed = Append(DestGiven, SKILLS)
    /\ ~StrEndsWith(DestGivenString, ToolSkills) /\ ~StrEndsWith(DestGivenString, ToolDir)
         => SkillsDirUsed = DestGiven \o <<ToolDir, SKILLS>>
    /\ StrEndsWith(PathString(SkillsDirUsed), ToolSkills)
    /\ skillsDirFor(Tool, PathString(SkillsDirUsed)) = SkillsDirUsed

----------------------------------------------------------------------------
(* C19: exit status of Install *)

NowFS == FS(fsDirs, fsFiles)
ValidTarget(args) == target(args) \in {CURSOR, CLAUDE}
MissingDestination(args) == destination(args) = JUndefined \/ destination(args).s = <<>>
SourceAt(args) == sourceResolved(sourcePath(args))
SourceMissing(fs, args) == ~existsSync(fs, SourceAt(args))
SourceIsDir(fs, args) == IsDirectory(fs, SourceAt(args))
UnitDirs(fs) == {d \in fs.dirs : existsSync(fs, PathJoin(d, SKILL_JSON))}
NoUnitUnder(fs, args) ==
  SourceIsDir(fs, args) /\ ~\E d \in UnitDirs(fs) : IsUnder(d, Real(fs, SourceAt(args)))
EarlyExit(fs, args) ==
  MissingDestination(args) \/ SourceMissing(fs, args) \/ NoUnitUnder(fs, args)

\* no file and no broken link on the way to dir
WayFree(fs, dir) ==
  \A k \in 1..Len(dir) : lexists(fs, SubSeq(dir, 1, k)) => IsDirectory(fs, SubSeq(dir, 1, k))

StartsInstall == pc = "idle" /\ mode' = "install" /\ ValidTarget(arg'.args)
FsSame == fsDirs' = fsDirs /\ fsFiles' = fsFiles
TakesUnit == mode = "install" /\ pc = "loop" /\ idx < Len(paths)
EndsInstall == mode = "install" /\ pc = "loop" /\ idx = Len(paths) /\ pc' = "exited"
ReferenceDir ==
  PathJoin(SkillsDirNow, (IF SourceAt(Argv) = <<>> THEN <<>> ELSE SourceAt(Argv)[Len(SourceAt(Argv))])
                           \o REFERENCE)

----------------------------------------------------------------------------
(* C20: a unit without the document its convention needs *)

InstallingRules == mode = "installRules"
InLoop == pc = "loop" /\ idx < Len(paths)
Unit == paths[idx + 1]

\* the document the running version needs of a unit, or null
NeededDoc(skill) == IF InstallingRules THEN skill.cursorRulePath ELSE skill.skillMdPath
DestOf(skill) ==
  IF InstallingRules THEN PathJoin(RulesDirNow, skill.slug \o DOT_MDC)
  ELSE PathJoin(SkillsDirNow, skill.slug)
LinksNow == IF InstallingRules THEN linkRules(Argv) ELSE Link

BatchRun == (Installing \/ InstallingRules) /\ stdout # <<>> /\ stdout[1].kind = "Installing"
Units == {paths[i] : i \in 1..Len(paths)}
Lacking == {u \in Units : NeededDoc(u) = JNull}
Warned(u) == \E n \in 1..Len(stderr) : stderr[n] = [path |-> u.dir, msg |-> [kind |-> "skipping"]]

\* the unit is at its destination: the link to it, or the copy of its document
InstalledAt(u) ==
  IF LinksNow
  THEN /\ IsLink(NowFS, DestOf(u))
       /\ Real(NowFS, DestOf(u)) = (IF InstallingRules THEN u.cursorRulePath.p ELSE u.dir)
  ELSE \E at \in {Real(NowFS, IF InstallingRules THEN DestOf(u) ELSE PathJoin(DestOf(u), SKILL_MD))} :
         /\ at \in DOMAIN fsFiles
         /\ fsFiles[at] = fsFiles[NeededDoc(u).p]

\* the turn of a unit that lacks its document: a warning, nothing touched, the
\* loop goes on
SkipTurn ==
  (Installing \/ InstallingRules) /\ InLoop /\ NeededDoc(Unit) = JNull =>
    /\ FsSame
    /\ stderr' = Append(stderr, [path |-> Unit.dir, msg |-> [kind |-> "skipping"]])
    /\ pc' = "loop" /\ idx' = idx + 1 /\ exitCode' = exitCode

\* C20 as stated: a unit that lacks the document its convention requires
\* (SKILL.md; cursor.rule.md in the rule-file version) is warned about and
\* skipped, nothing is created at its destination, every other unit of the
\* batch is installed and the run ends with 0.
C20_SkipNotFatal ==
  /\ [][SkipTurn]_vars
  /\ [](BatchRun /\ Exited /\ Lacking # {} =>
          /\ exitCode = 0
          /\ \A u \in Lacking : Warned(u)
          /\ \A u \in Units \ Lacking : InstalledAt(u))

\* C20, amended: the turn of such a unit prints the warning, touches nothing
\* and goes on to the next unit; when the run ends with 0 every such unit was
\* warned about and every other unit is installed; the run ends with 1 only
\* when a file system call raised on another unit or on the reference
\* document.
C20_SkipNotFatalUnlessRaised ==
  /\ [][SkipTurn]_vars
  /\ [](BatchRun /\ Exited /\ Lacking # {} =>
          /\ exitCode \in {0, 1}
          /\ exitCode = 0 =>
               /\ \A u \in Lacking : Warned(u)
               /\ \A u \in Units \ Lacking : InstalledAt(u)
          /\ exitCode = 1 =>
               /\ stderr[Len(stderr)].msg.kind = "uncaught"
               /\ stderr[Len(stderr)].path = <<>> \/ \E u \in Units \ Lacking : stderr[Len(stderr)].path = u.dir)

\* a batch of two units has ended with 0: one was skipped, the other is
\* installed
C20_Witness ==
  /\ BatchRun /\ Exited /\ exitCode = 0
  /\ \E u \in Lacking : Warned(u) /\ ~lexists(NowFS, DestOf(u))
  /\ \E u \in Units \ Lacking : InstalledAt(u)

----------------------------------------------------------------------------
(* C23: descriptors that pass validation, rendered. Validate and both versions
   of Generate on skills/a/skill.json, whose optional fields and id may have
   any JSON type *)

AcceptDescriptors ==
  {MkDescriptor(("id" :> i) @@ ("title" :> SampleText) @@ ("version" :> v)
                  @@ ("description" :> JStr(<<"d">>))
                  @@ ("triggers" :> t) @@ ("inputs" :> n) @@ ("guarantees" :> g)
                  @@ ("non_goals" :> a) @@ ("notes" :> Absent)) :
     i \in {SampleId, JNum(<<"1">>), JNull, JArr(<<JStr(<<".">>)>>), JArr(<<JStr(<<"x">>)>>)},
     v \in {GoodVersion, JStr(<<"1">>)},
     t \in {Absent, JArr(<<JStr(<<"t">>)>>), JStr(<<"t", "u">>), JNum(<<"1">>), JNum(<<"0">>),
            JObj(<<>>, <<>>), JTrue},
     n \in {Absent, JNum(<<"1">>), JStr(<<"x">>)},
     g \in {Absent, JArr(<<JStr(<<"g">>)>>), JNum(<<"1">>)},
     a \in {Absent, JArr(<<JStr(<<"n">>)>>), JNum(<<"1">>), JObj(<<>>, <<>>)}}

InitAccept ==
  /\ fsDirs = {<<>>, repoRoot, skillsDir, skillsDir \o <<N_a>>}
  /\ \E d \in AcceptDescriptors : fsFiles = (OnePath :> JsonFile(d))
  /\ mode = "idle"
  /\ arg = JUndefined
  /\ pc = "idle"
  /\ paths = <<>>
  /\ idx = 0
  /\ failed = FALSE
  /\ exitCode = -1
  /\ stderr = <<>>
  /\ stdout = <<>>
  /\ walked = {}
  /\ trace = <<>>
  /\ lastCall = "none"

NextAccept ==
  \/ ValidateStart(RenderArg)
  \/ ValidateStep
  \/ ValidateExit
  \/ GenerateStart(RenderArg)
  \/ GenerateStartFrontmatter(RenderArg)
  \/ GenerateStep
  \/ GenerateStepFrontmatter
  \/ GenerateDone

SpecAccept == InitAccept /\ [][NextAccept]_vars

TheDescriptor == fsFiles[OnePath].value
Accepted == validateOne(OnePath, fsFiles[OnePath]).ret
Rendering == mode \in {"generate", "generateFrontmatter"} /\ lastCall # "none"
Field(k) == Get(TheDescriptor, k)

\* `for (const x of v || [])` runs: v is missing or falsy, an array or a string
Loops(k) == ~Has(k) \/ ~Truthy(Field(k)) \/ Field(k).t \in {"arr", "str"}
\* the Avoid block asks non_goals for a positive length before its loop
AvoidLoops == Loops("non_goals") \/ Field("non_goals").t \in {"num", "bool"} \/ Field("non_goals") = JObj(<<>>, <<>>)
\* skill.id.includes('.') and split('.') run
IdSplits == Field("id").t = "str" \/ (Field("id").t = "arr" /\ JStr(<<".">>) \notin {Field("id").items[i] : i \in 1..Len(Field("id").items)})

----------------------------------------------------------------------------
(* C24, checked under Spec *)

\* C24: with no path argument Validate and Generate work on the same
\* descriptors in the same order: the working set of a run of either script
\* is what the other script finds on the tree.
C24_SameWorkingSet ==
  Started /\ Batch /\ mode \in {"validate", "generate"} =>
    \E order \in Orders(arg) :
      /\ paths = findSkillJsonPaths(arg, order).paths
      /\ paths = findSkillJsonPathsGen(arg, order).paths

----------------------------------------------------------------------------
(* C21: copy by default, --link / -l, and the words of the command line *)

LinkPaths == {q \in DOMAIN fsFiles : fsFiles[q].kind = "link"}
IsOption(w) ==
  w \in {FLAG_LINK, FLAG_L, FLAG_INCLUDE_CLAUDE} \/ StrStartsWith(w, TARGET_EQ)
Words == SelectSeq(Argv, LAMBDA w : ~IsOption(w))
LinkAsked == \E i \in 1..Len(Argv) : Argv[i] \in {FLAG_LINK, FLAG_L}
Taken == {paths[i] : i \in 1..idx} \ Lacking
ReferenceAt == PathJoin(ReferenceDir, SKILL_MD)
ReferenceDone == \E n \in 1..Len(stdout) : stdout[n].kind = "reference"

----------------------------------------------------------------------------
(* Install run again: the same project is installed to more than once, and
   the source is edited between two runs (README.md: "Update by re-running
   the install command") *)

G == <<"g">>
Y_MD == <<"y", ".", "m", "d">>
unitGA == skillsDir \o <<G, N_a>>

\* the repository: the unit skills/a with its descriptor, both documents, a
\* subdirectory holding a file and a rule file of its own, and the unit
\* skills/g/a of the group g, whose directory has the same name
AgainDirs == {<<>>, repoRoot, skillsDir, unitA, unitA \o <<SUB>>, skillsDir \o <<G>>, unitGA}
AgainFiles ==
  (PathJoin(unitA, SKILL_JSON) :> ValidDescriptor)
    @@ (PathJoin(unitA, SKILL_MD) :> TextFile(<<"A">>))
    @@ (PathJoin(unitA, CURSOR_RULE_MD) :> TextFile(<<"r">>))
    @@ (unitA \o <<SUB, X_MD>> :> TextFile(<<"x">>))
    @@ (unitA \o <<SUB, CURSOR_RULE_MD>> :> TextFile(<<"s">>))
    @@ (PathJoin(unitGA, SKILL_JSON) :> ValidDescriptor)
    @@ (PathJoin(unitGA, SKILL_MD) :> TextFile(<<"G">>))

InitReinstall ==
  /\ \E k \in DestKinds :
       /\ fsDirs = AgainDirs \cup DestDirs(k)
       /\ fsFiles = AgainFiles @@ DestFiles(k)
  /\ mode = "idle"
  /\ arg = JUndefined
  /\ pc = "idle"
  /\ paths = <<>>
  /\ idx = 0
  /\ failed = FALSE
  /\ exitCode = -1
  /\ stderr = <<>>
  /\ stdout = <<>>
  /\ walked = {}
  /\ trace = <<>>
  /\ lastCall = "none"

\* command lines: copy or link; to the project, or to the directory named
\* skills of the working directory, which is the source directory; one unit
\* or all of them
AgainLines ==
  {l \o <<d>> \o src :
     l \in {<<>>, <<FLAG_LINK>>},
     d \in {Slash(projectDir), SKILLS},
     src \in {<<>>, <<JoinStr(<<SKILLS, N_a>>, <<"/">>)>>}}

\* readdir returns the entries of skills/ in either order
AgainListings == {<<N_a, G>>, <<G, N_a>>}

InstallRuns == Cardinality({n \in 1..Len(trace) : trace[n].op = "again"}) + 1

\* the process has ended and the script is started once more
InstallAgain ==
  /\ mode = "install" /\ pc = "exited"
  /\ InstallRuns < MaxInstalls
  /\ pc' = "idle"
  /\ arg' = JUndefined
  /\ paths' = <<>>
  /\ idx' = 0
  /\ exitCode' = -1
  /\ stderr' = <<>>
  /\ stdout' = <<>>
  /\ lastCall' = "none"
  /\ trace' = Append(trace, [op |-> "again", path |-> <<>>])
  /\ UNCHANGED <<fsDirs, fsFiles, mode, failed, walked>>

\* between two runs a file of the source unit is removed
EditSource ==
  /\ mode = "install" /\ pc = "exited"
  /\ unitA \o <<SUB, X_MD>> \in DOMAIN fsFiles
  /\ fsFiles' = [q \in DOMAIN fsFiles \ {unitA \o <<SUB, X_MD>>} |-> fsFiles[q]]
  /\ trace' = Append(trace, [op |-> "edit", path |-> unitA \o <<SUB, X_MD>>])
  /\ UNCHANGED <<fsDirs, mode, arg, pc, paths, idx, failed, exitCode, stderr, stdout, walked, lastCall>>

NextReinstall ==
  \/ \E args \in AgainLines : \E listing \in AgainListings : InstallStart(args, listing)
  \/ InstallStep
  \/ InstallDone
  \/ InstallAgain
  \/ EditSource

SpecReinstall == InitReinstall /\ [][NextReinstall]_vars

----------------------------------------------------------------------------
(* C22: what a copy takes *)

FilesUnder(dir) == {q \in DOMAIN fsFiles : IsUnder(q, dir) /\ q # dir}
DirsUnder(dir) == {q \in fsDirs : IsUnder(q, dir) /\ q # dir}
Rel(q, dir) == SubSeq(q, Len(dir) + 1, Len(q))
LastName(q) == q[Len(q)]
CopyTurn == Installing /\ InLoop /\ ~Link /\ ~Skips(Unit)

\* C22: the turn that copies a unit writes no file named skill.json or
\* cursor.rule.md, at any depth; when it has ended, every other file of the
\* unit is at the same relative path under <skills dir>/<slug> with the
\* source's content, and every subdirectory is a directory there.
C22_SkipsAtAnyDepth ==
  [][CopyTurn =>
       /\ \A q \in DOMAIN fsFiles' :
            (q \notin DOMAIN fsFiles \/ fsFiles'[q] # fsFiles[q])
              => LastName(q) \notin {SKILL_JSON, CURSOR_RULE_MD}
       /\ lastCall' = "done" =>
            /\ \A f \in FilesUnder(Unit.dir) :
                 LastName(f) \notin {SKILL_JSON, CURSOR_RULE_MD} =>
                   \E at \in {Real(FS(fsDirs', fsFiles'), DestOf(Unit) \o Rel(f, Unit.dir))} :
                     at \in DOMAIN fsFiles' /\ fsFiles'[at] = fsFiles[f]
            /\ \A d \in DirsUnder(Unit.dir) :
                 IsDirectory(FS(fsDirs', fsFiles'), DestOf(Unit) \o Rel(d, Unit.dir))]_vars

\* skills/a has been copied to a new /p/.cursor/skills/a: sub/x.md and
\* SKILL.md are there, skill.json, cursor.rule.md and sub/cursor.rule.md are
\* not
C22_Witness ==
  /\ Resolved /\ ~LinkAsked /\ lastCall = "done"
  /\ unitA \o <<SUB, CURSOR_RULE_MD>> \in DOMAIN fsFiles
  /\ cursorSkills \o <<N_a, SUB, X_MD>> \in DOMAIN fsFiles
  /\ fsFiles[cursorSkills \o <<N_a, SKILL_MD>>] = TextFile(<<"A">>)
  /\ cursorSkills \o <<N_a, SUB>> \in fsDirs
  /\ \A n \in {<<SKILL_JSON>>, <<CURSOR_RULE_MD>>, <<SUB, CURSOR_RULE_MD>>} :
       cursorSkills \o <<N_a>> \o n \notin DOMAIN fsFiles

----------------------------------------------------------------------------
(* C25 .. C29: what Install leaves at the destination and in the source *)

CopyDone == Resolved /\ Exited /\ exitCode = 0 /\ ~LinkAsked

\* C25: after a successful copy-mode run every unit taken is, at
\* <skills dir>/<slug>, a real directory (not a symlink) that holds each file
\* of the unit that is not skipped as a regular file of its own.
C25_CopyIsRealDirectory ==
  CopyDone =>
    \A u \in Taken :
      /\ DestOf(u) \in fsDirs
      /\ DestOf(u) \notin LinkPaths
      /\ \A f \in FilesUnder(u.dir) :
           LastName(f) \notin skipFiles =>
             \E at \in {DestOf(u) \o Rel(f, u.dir)} :
               at # f /\ at \in DOMAIN fsFiles /\ fsFiles[at].kind # "link"

\* the source tree: everything at or below the resolved source directory
SourceTreeOf(dirs, files) ==
  [dirs |-> {q \in dirs : IsUnder(q, skillsDir)},
   files |-> [q \in {x \in DOMAIN files : IsUnder(x, skillsDir)} |-> files[q]]]

\* C26: no step of an Install run changes or removes anything under the
\* source tree, for every destination and in both modes.
C26_SourceUntouched ==
  [][pc # "exited" /\ mode' = "install"
       => SourceTreeOf(fsDirs', fsFiles') = SourceTreeOf(fsDirs, fsFiles)]_vars

\* C27: the units found in one run have pairwise distinct destinations.
C27_DistinctDestinations ==
  Resolved => \A u, v \in Units : u # v => DestOf(u) # DestOf(v)

\* an earlier run of the same script copied the unit to the same place
CopiedBefore(u) ==
  \E n, m \in 1..Len(trace) :
    n < m /\ trace[n] = [op |-> "copy", path |-> DestOf(u)] /\ trace[m].op = "again"

\* C28: after a copy-mode run that follows an earlier copy of the unit to the
\* same place, every file in the installed unit directory has a counterpart
\* in the source unit directory as it is now.
C28_RerunMirrors ==
  CopyDone =>
    \A u \in Taken :
      CopiedBefore(u) =>
        \A q \in FilesUnder(DestOf(u)) : u.dir \o Rel(q, DestOf(u)) \in DOMAIN fsFiles

LinkTurn == Installing /\ InLoop /\ Link /\ ~Skips(Unit)

\* C29: the turn that links a unit ends without an error and leaves the
\* symlink to the unit at <skills dir>/<slug>, whatever was there: nothing, a
\* regular file, a directory, a symlink to an existing target, a dangling
\* symlink, or the symlink of an earlier identical run.
C29_LinkReplaces ==
  [][LinkTurn =>
       /\ lastCall' = "done"
       /\ DestOf(Unit) \in DOMAIN fsFiles'
       /\ fsFiles'[DestOf(Unit)] = LinkFile(PathRelative(SkillsDirNow, Unit.dir))]_vars

----------------------------------------------------------------------------
(* Generate runs that overlap in time on one descriptor
   (src/scripts/generateSkillFiles.js, processOne): every run is a process of
   its own, and each of its three file system calls is a step. pc and arg
   hold, per run, its position and the descriptor it has parsed. *)

Procs == 1..MaxOverlap

\* the versions of the descriptor: with or without non_goals, with or
\* without notes
OverlapVersions == {d \in RerunDescriptors : Get(d, "id") = SampleId}

InitOverlap ==
  /\ fsDirs = {<<>>, repoRoot, skillsDir, skillsDir \o <<N_a>>}
  /\ \E d \in OverlapVersions : fsFiles = (OnePath :> JsonFile(d))
  /\ mode = "generate"
  /\ arg = [i \in Procs |-> JUndefined]
  /\ pc = [i \in Procs |-> "read"]
  /\ paths = <<OnePath>>
  /\ idx = 0
  /\ failed = FALSE
  /\ exitCode = -1
  /\ stderr = <<>>
  /\ stdout = <<>>
  /\ walked = {}
  /\ trace = <<>>
  /\ lastCall = "none"

\* const skill = JSON.parse(fs.readFileSync(skillJsonPath, 'utf8'))
OverlapRead(i) ==
  /\ pc[i] = "read"
  /\ arg' = [arg EXCEPT ![i] = JSONParse(fsFiles[OnePath]).value]
  /\ pc' = [pc EXCEPT ![i] = "writeSkillMd"]
  /\ trace' = Append(trace, [op |-> "read", path |-> OnePath, by |-> i])
  /\ UNCHANGED <<fsDirs, fsFiles, mode, paths, idx, failed, exitCode, stderr, stdout, walked, lastCall>>

\* fs.writeFileSync(path.join(dir, 'SKILL.md'), generateSkillMd(skill))
OverlapWriteSkillMd(i) ==
  /\ pc[i] = "writeSkillMd"
  /\ fsFiles' = WriteFile(fsFiles, SkillMdPath, generateSkillMd(arg[i]).text)
  /\ pc' = [pc EXCEPT ![i] = "writeRule"]
  /\ trace' = Append(trace, [op |-> "write", path |-> SkillMdPath, by |-> i])
  /\ UNCHANGED <<fsDirs, mode, arg, paths, idx, failed, exitCode, stderr, stdout, walked, lastCall>>

\* variant: the descriptor is read again for the second document
RuleTextFresh(i) == generateCursorRuleMd(JSONParse(fsFiles[OnePath]).value).text

\* generateCursorRuleMd(skill), of the descriptor parsed at the start of
\* processOne
RuleText(i) == generateCursorRuleMd(arg[i]).text

\* fs.writeFileSync(path.join(dir, 'cursor.rule.md'), generateCursorRuleMd(skill)),
\* and the run ends
OverlapWriteRule(i) ==
  /\ pc[i] = "writeRule"
  /\ fsFiles' = WriteFile(fsFiles, RulePath, RuleText(i))
  /\ pc' = [pc EXCEPT ![i] = "exited"]
  /\ trace' = Append(trace, [op |-> "write", path |-> RulePath, by |-> i])
  /\ UNCHANGED <<fsDirs, mode, arg, paths, idx, failed, exitCode, stderr, stdout, walked, lastCall>>

\* the descriptor is edited once, at any moment
EditDescriptor ==
  /\ \A n \in 1..Len(trace) : trace[n].op # "edit"
  /\ \E d \in OverlapVersions :
       /\ JsonFile(d) # fsFiles[OnePath]
       /\ fsFiles' = (OnePath :> JsonFile(d)) @@ fsFiles
  /\ trace' = Append(trace, [op |-> "edit", path |-> OnePath, by |-> 0])
  /\ UNCHANGED <<fsDirs, mode, arg, pc, paths, idx, failed, exitCode, stderr, stdout, walked, lastCall>>

NextOverlap ==
  \/ \E i \in Procs : OverlapRead(i)
  \/ \E i \in Procs : OverlapWriteSkillMd(i)
  \/ \E i \in Procs : OverlapWriteRule(i)
  \/ EditDescriptor

SpecOverlap == InitOverlap /\ [][NextOverlap]_vars

----------------------------------------------------------------------------
(* C30: the documents two overlapping runs leave *)

AllExited == \A i \in Procs : pc[i] = "exited"
VersionsRead == {arg[i] : i \in Procs}
EditedBetweenReads == Cardinality(VersionsRead) > 1
PairOf(v) ==
  /\ fsFiles[SkillMdPath] = TextFile(generateSkillMd(v).text)
  /\ fsFiles[RulePath] = TextFile(generateCursorRuleMd(v).text)
LastWriter(p) ==
  trace[CHOOSE n \in 1..Len(trace) :
          /\ trace[n] = [op |-> "write", path |-> p, by |-> trace[n].by]
          /\ \A m \in (n + 1)..Len(trace) : ~(trace[m].op = "write" /\ trace[m].path = p)].by

\* C30 as stated: when the runs have read different versions and all have
\* ended, SKILL.md and cursor.rule.md are the renderings of one version.
C30_ConsistentPair ==
  AllExited /\ EditedBetweenReads => \E v \in VersionsRead : PairOf(v)

\* C30: when all runs have ended, each document is in full the rendering of
\* the version read by the run that wrote it last; the two documents are the
\* renderings of one version when the same run wrote both last.
C30_LastWriterWins ==
  AllExited =>
    /\ fsFiles[SkillMdPath] = TextFile(generateSkillMd(arg[LastWriter(SkillMdPath)]).text)
    /\ fsFiles[RulePath] = TextFile(generateCursorRuleMd(arg[LastWriter(RulePath)]).text)
    /\ LastWriter(SkillMdPath) = LastWriter(RulePath) => PairOf(arg[LastWriter(RulePath)])

\* both runs have ended, the descriptor was edited between their reads, and
\* SKILL.md comes from the second version while cursor.rule.md comes from the
\* first
C30_Witness ==
  /\ AllExited /\ EditedBetweenReads
  /\ LastWriter(SkillMdPath) # LastWriter(RulePath)
  /\ ~(\E v \in VersionsRead : PairOf(v))
  /\ fsFiles[SkillMdPath] = TextFile(generateSkillMd(fsFiles[OnePath].value).text)

====
